---- MODULE Spec2Model ----
(***************************************************************************)
(* Model of the TokenManager (token storage, expiry timers, deduplicated   *)
(* renewal, renew throttling, cross-tab synchronisation) of okta-auth-js.  *)
(*                                                                         *)
(* Time is counted in seconds: clock.now() is `now', Date.now() is         *)
(* now * 1000.  A token is a record; `Undef' stands for JavaScript's       *)
(* undefined.  The token storage is the sequence of its entries, in key      *)
(* order.   Timer handles and promises are opaque identities, allocated as *)
(* the smallest identity that nothing in the state still refers to.        *)
(***************************************************************************)
EXTENDS Integers, Sequences, FiniteSets, Bags, TLC

VARIABLES
  storage,          \* storage.getStorage(): its entries, in the order of Object.keys
  expireTimeouts,   \* tokenMgmtRef.expireTimeouts: key -> timer handle
  renewPromise,     \* tokenMgmtRef.renewPromise: key -> promise
  timers,           \* the live (scheduled, not fired, not cancelled) timers
  requests,         \* the renewals whose promise chain has not run to its end
  events,           \* the events the last operation emitted, in order
  result,           \* what the last operation did and returned
  now,              \* the clock, in seconds
  renewTimeQueue,   \* the expired handler's queue of attempt times (ms)
  attempts,         \* history: the time and outcome of every autoRenew attempt
  prev,             \* history: the token storage before the last operation
  options,          \* the options the manager was constructed with
  crossTab,         \* delayed handleCrossTabsStorageChange callbacks, in order
  transactionMeta,  \* the transaction manager's store of the idx transaction
  transaction,      \* what the last idx operation was given, called and returned
  runs,             \* the invocations of run that are suspended at an await
  call              \* the last call of a function without state: argument and value

\* the variables of the token manager and those of the idx transaction
managerVars == <<storage, expireTimeouts, renewPromise, timers, requests, events,
                 result, now, renewTimeQueue, attempts, prev, options, crossTab>>

idxVars == <<transactionMeta, transaction, runs>>

\* no function without state has been called
NoCall == [op |-> "none"]

vars == <<storage, expireTimeouts, renewPromise, timers, requests, events,
          result, now, renewTimeQueue, attempts, prev, options, crossTab,
          transactionMeta, transaction, runs, call>>

----------------------------------------------------------------------------
(* Bounds of the model. *)

\* most delayed cross-tab callbacks pending at a time
MaxCrossTab == 1
\* most renewal requests outstanding at a time
MaxRequests == 1
\* most attempt times the expired handler's queue holds in the manager's life
MaxQueue == 2
\* most expired-handler attempts recorded in the throttling scenario
MaxAttempts == 11
\* most invocations of run suspended at an await at a time, where the
\* invocations overlap
MaxRuns == 2
\* most invocations of run suspended at an await at a time, where the
\* collaborators give every answer
MaxAwaited == 1

(* Program constants. *)

\* DEFAULT_OPTIONS.expireEarlySeconds
ExpireEarlySeconds == 30
\* shouldThrottleRenew: renewTimeQueue.length >= 10
ThrottleLength == 10
\* shouldThrottleRenew: lastTime - firstTime < 30 * 1000
ThrottleWindowMs == 30000

ID_TOKEN_STORAGE_KEY == "idToken"
ACCESS_TOKEN_STORAGE_KEY == "accessToken"
REFRESH_TOKEN_STORAGE_KEY == "refreshToken"
\* options.storageKey (TOKEN_STORAGE_NAME)
StorageKey == "okta-token-storage"
OtherStorageKey == "other-storage"
\* event.key of a StorageEvent caused by localStorage.clear()
NullKey == "null"
\* event.key of a StorageEvent for an item stored under the empty string
EmptyKey == ""

EVENT_EXPIRED == "expired"
EVENT_RENEWED == "renewed"
EVENT_ADDED == "added"
EVENT_REMOVED == "removed"
EVENT_ERROR == "error"

----------------------------------------------------------------------------
(* Tokens. *)

Keys == {ID_TOKEN_STORAGE_KEY, ACCESS_TOKEN_STORAGE_KEY, REFRESH_TOKEN_STORAGE_KEY}
\* a token's expiresAt when it has none
NoExpiresAt == -1
\* expiresAt = 0 is a legal value; ExpireEarlySeconds + 1 expires at now = 1

Tok(kind, expiresAt) ==
  [obj |-> TRUE, scopes |-> TRUE, expiresAt |-> expiresAt, kind |-> kind]

\* JavaScript's undefined (not an object)
Undef == [obj |-> FALSE, scopes |-> FALSE, expiresAt |-> NoExpiresAt, kind |-> "none"]

ValidTokens ==
  {Tok("id", ExpireEarlySeconds + 1), Tok("access", 0),
   Tok("access", ExpireEarlySeconds + 1), Tok("refresh", ExpireEarlySeconds + 1)}
TokensOfKind(k) == {t \in ValidTokens : t.kind = k}

\* tokens validateToken rejects: undefined, no scopes, no expiresAt, no kind
NoScopes == [obj |-> TRUE, scopes |-> FALSE, expiresAt |-> 0, kind |-> "id"]
\* an access token without expiresAt
NoExpiry == [obj |-> TRUE, scopes |-> TRUE, expiresAt |-> NoExpiresAt, kind |-> "access"]
InvalidTokens ==
  { Undef, NoScopes, NoExpiry,
    [obj |-> TRUE, scopes |-> TRUE, expiresAt |-> 0, kind |-> "none"] }

isIDToken(t) == t.obj /\ t.kind = "id"
isAccessToken(t) == t.obj /\ t.kind = "access"
isRefreshToken(t) == t.obj /\ t.kind = "refresh"

\* TRUE when validateToken(token) throws the AuthSdkError
validateTokenThrows(token) ==
  \/ ~token.obj
  \/ ~token.scopes
  \/ token.expiresAt = NoExpiresAt
  \/ (~isIDToken(token) /\ ~isAccessToken(token) /\ ~isRefreshToken(token))

----------------------------------------------------------------------------
(* JavaScript objects.  The token storage keeps its keys in insertion      *)
(* order (Object.keys), so it is a sequence of <<key, token>> entries with *)
(* distinct keys; the timer and promise maps are functions.                *)

EmptyMap == [k \in {} |-> 0]
MapDelete(m, k) == [x \in DOMAIN m \ {k} |-> m[x]]
MapPut(m, k, v) == [x \in DOMAIN m \cup {k} |-> IF x = k THEN v ELSE m[x]]
MapRange(m) == {m[k] : k \in DOMAIN m}

Entry(k, t) == [key |-> k, token |-> t]
Entries(keys, tokens) == {Entry(k, t) : k \in keys, t \in tokens}
StKeys(st) == {st[i].key : i \in 1..Len(st)}
\* tokenStorage[key]
StGet(st, k) ==
  IF k \in StKeys(st)
  THEN st[CHOOSE i \in 1..Len(st) : st[i].key = k].token
  ELSE Undef
\* tokenStorage[key] = token: in place when the key exists, else appended
StPut(st, k, t) ==
  IF k \in StKeys(st)
  THEN [i \in 1..Len(st) |-> IF st[i].key = k THEN Entry(k, t) ELSE st[i]]
  ELSE Append(st, Entry(k, t))
\* delete tokenStorage[key]
StDelete(st, k) == SelectSeq(st, LAMBDA e : e.key # k)

MinOf(S) == CHOOSE x \in S : \A y \in S : x <= y
Max2(a, b) == IF a >= b THEN a ELSE b

\* the smallest identity >= 1 that is not in `used'
FreshId(used) == MinOf({i \in 1..(Cardinality(used) + 1) : i \notin used})

----------------------------------------------------------------------------
(* Events. *)

Event(type, key, token, old, err) ==
  [type |-> type, key |-> key, token |-> token, old |-> old, err |-> err]

----------------------------------------------------------------------------
(* The manager's mutable state as one record, so that the functions of the *)
(* source compose: each takes the state and returns the state after it.    *)
(* `writes' counts storage.setStorage calls, `thrown' is the name of the   *)
(* error thrown ("" when none), `calls' the callbacks invoked.             *)

Cur ==
  [ storage |-> storage, expireTimeouts |-> expireTimeouts,
    renewPromise |-> renewPromise, timers |-> timers,
    events |-> <<>>, writes |-> 0, cancels |-> 0, thrown |-> "", calls |-> <<>> ]

emit(s, e) == [s EXCEPT !.events = Append(@, e)]
emitExpired(s, key, token) == emit(s, Event(EVENT_EXPIRED, key, token, Undef, ""))
emitRenewed(s, key, freshToken, oldToken) ==
  emit(s, Event(EVENT_RENEWED, key, freshToken, oldToken, ""))
emitAdded(s, key, token) == emit(s, Event(EVENT_ADDED, key, token, Undef, ""))
emitRemoved(s, key, token) == emit(s, Event(EVENT_REMOVED, key, token, Undef, ""))
\* the error event; key is the error's tokenKey ("" when it has none)
emitError(s, err, key) == emit(s, Event(EVENT_ERROR, key, Undef, Undef, err))

setStorage(s, st) == [s EXCEPT !.storage = st, !.writes = @ + 1]

\* token.expiresAt - expireEarlySeconds, of a token that carries expiresAt
getExpireTime(token) == token.expiresAt - ExpireEarlySeconds

\* a variant of hasExpired with a strict comparison
hasExpiredStrict(token) ==
  token.expiresAt # NoExpiresAt /\ getExpireTime(token) < now

\* expireTime <= clock.now(); a missing expiresAt gives the expire time NaN,
\* and NaN <= now is false
hasExpired(token) ==
  token.expiresAt # NoExpiresAt /\ getExpireTime(token) <= now

\* clearTimeout(expireTimeouts[key]); delete expireTimeouts[key];
\* delete renewPromise[key]
clearExpireEventTimeout(s, key) ==
  [s EXCEPT
     !.timers = IF key \in DOMAIN s.expireTimeouts
                THEN {t \in @ : t.id # s.expireTimeouts[key]}
                ELSE @,
     !.cancels = IF /\ key \in DOMAIN s.expireTimeouts
                    /\ \E t \in s.timers : t.id = s.expireTimeouts[key]
                 THEN @ + 1
                 ELSE @,
     !.expireTimeouts = MapDelete(@, key),
     !.renewPromise = MapDelete(@, key)]

RECURSIVE clearEach(_, _)
clearEach(s, ks) ==
  IF ks = {} THEN s
  ELSE LET k == CHOOSE x \in ks : TRUE
       IN clearEach(clearExpireEventTimeout(s, k), ks \ {k})

\* for (key in expireTimeouts) clearExpireEventTimeout(key)
clearExpireEventTimeoutAll(s) == clearEach(s, DOMAIN s.expireTimeouts)

\* Math.max(expireTime - clock.now(), 0) * 1000; a missing expiresAt gives
\* NaN, which setTimeout takes as 0
expireEventWait(token) ==
  IF token.expiresAt = NoExpiresAt THEN 0
  ELSE Max2(getExpireTime(token) - now, 0) * 1000

\* a timer handle is <<key, n>>: the n-th handle of those the state holds for
\* the key
TimerIdsInUse(s, key) ==
  {t.id[2] : t \in {x \in s.timers : x.key = key}}
    \cup {s.expireTimeouts[k][2] : k \in DOMAIN s.expireTimeouts \cap {key}}

\* a variant of setExpireEventTimeout that does not cancel the key's timer
setWithoutClear(s, key, token) ==
  LET id == <<key, FreshId(TimerIdsInUse(s, key))>>
      timer == [id |-> id, key |-> key, token |-> token,
                wait |-> expireEventWait(token), setAt |-> now]
  IN [s EXCEPT !.timers = @ \cup {timer},
               !.expireTimeouts = MapPut(@, key, id)]

setExpireEventTimeout(s, key, token) ==
  LET c == clearExpireEventTimeout(s, key)
      id == <<key, FreshId(TimerIdsInUse(c, key))>>
      timer == [id |-> id, key |-> key, token |-> token,
                wait |-> expireEventWait(token), setAt |-> now]
  IN [c EXCEPT !.timers = @ \cup {timer},
               !.expireTimeouts = MapPut(@, key, id)]

RECURSIVE setEach(_, _, _)
setEach(s, st, i) ==
  IF i > Len(st) THEN s
  ELSE setEach(setExpireEventTimeout(s, st[i].key, st[i].token), st, i + 1)

\* what storage.getStorage() throws: nothing, or the AuthSdkError of a
\* storage that cannot be read
StorageErrors == {"", "AuthSdkError"}

\* try { getStorage } catch { emitError; return }; then, for (key in
\* tokenStorage) setExpireEventTimeout(key, tokenStorage[key]);
\* e: what getStorage throws
setExpireEventTimeoutAll(s, e) ==
  IF e # "" THEN emitError(s, e, "") ELSE setEach(s, s.storage, 1)

resetExpireEventTimeoutAll(s, e) ==
  setExpireEventTimeoutAll(clearExpireEventTimeoutAll(s), e)

\* a variant of _add that validates after it has stored the token
addThenValidate(s, key, token) ==
  LET w == setStorage(s, StPut(s.storage, key, token))
      t == setExpireEventTimeout(emitAdded(w, key, token), key, token)
  IN IF validateTokenThrows(token) THEN [t EXCEPT !.thrown = "AuthSdkError"] ELSE t

\* _add: validateToken throws before anything is written
_add(s, key, token) ==
  IF validateTokenThrows(token)
  THEN [s EXCEPT !.thrown = "AuthSdkError"]
  ELSE LET w == setStorage(s, StPut(s.storage, key, token))
       IN setExpireEventTimeout(emitAdded(w, key, token), key, token)

add(s, key, token) == _add(s, key, token)

get(st, key) == StGet(st, key)

\* the first key of the storage whose token is of the type, "" when none
getKeyByType(st, type) ==
  LET hits == SelectSeq(st, LAMBDA e :
                \/ (isAccessToken(e.token) /\ type = "accessToken")
                \/ (isIDToken(e.token) /\ type = "idToken")
                \/ (isRefreshToken(e.token) /\ type = "refreshToken"))
  IN IF hits = <<>> THEN "" ELSE hits[1].key

NoTokens == [accessToken |-> Undef, idToken |-> Undef, refreshToken |-> Undef]

RECURSIVE getTokensFrom(_, _, _)
getTokensFrom(st, i, tokens) ==
  IF i > Len(st) THEN tokens
  ELSE LET token == st[i].token
           next == IF isAccessToken(token)
                     THEN [tokens EXCEPT !.accessToken = token]
                   ELSE IF isIDToken(token)
                     THEN [tokens EXCEPT !.idToken = token]
                   ELSE IF isRefreshToken(token)
                     THEN [tokens EXCEPT !.refreshToken = token]
                   ELSE tokens
       IN getTokensFrom(st, i + 1, next)

getTokens(st) == getTokensFrom(st, 1, NoTokens)

remove(s, key) ==
  LET c == clearExpireEventTimeout(s, key)
      removedToken == StGet(c.storage, key)
      w == setStorage(c, StDelete(c.storage, key))
  IN emitRemoved(w, key, removedToken)

clear(s) == [clearExpireEventTimeoutAll(s) EXCEPT !.storage = <<>>]

----------------------------------------------------------------------------
(* setTokens.  The bag is [idToken, accessToken, refreshToken], a slot     *)
(* being Undef when the kind is not supplied; all three callbacks are      *)
(* given.                                                                  *)

Call(cb, key, token) == [cb |-> cb, key |-> key, token |-> token]

\* a variant of handleAdded that is silent about a token the storage held
handleAddedIfNew(s, key, token, cb) ==
  LET e == IF token \in {storage[i].token : i \in 1..Len(storage)}
           THEN s ELSE emitAdded(s, key, token)
      t == setExpireEventTimeout(e, key, token)
  IN [t EXCEPT !.calls = Append(@, Call(cb, key, token))]

handleAdded(s, key, token, cb) ==
  LET t == setExpireEventTimeout(emitAdded(s, key, token), key, token)
  IN [t EXCEPT !.calls = Append(@, Call(cb, key, token))]

handleRemoved(s, key, token, cb) ==
  LET t == emitRemoved(clearExpireEventTimeout(s, key), key, token)
  IN [t EXCEPT !.calls = Append(@, Call(cb, key, token))]

OrDefault(key, default) == IF key = "" THEN default ELSE key

\* { ...(idToken && {[idTokenKey]: idToken}), ...(accessToken && ...), ... }
BagStorage(bag, idTokenKey, accessTokenKey, refreshTokenKey) ==
  LET a == IF bag.idToken.obj THEN StPut(<<>>, idTokenKey, bag.idToken) ELSE <<>>
      b == IF bag.accessToken.obj THEN StPut(a, accessTokenKey, bag.accessToken) ELSE a
  IN IF bag.refreshToken.obj THEN StPut(b, refreshTokenKey, bag.refreshToken) ELSE b

\* one kind of the bag after the write: added when supplied, removed when
\* the storage read back holds a token of the kind
handleKind(s, key, token, existing, cb) ==
  IF token.obj THEN handleAdded(s, key, token, cb)
  ELSE IF existing.obj THEN handleRemoved(s, key, existing, cb)
  ELSE s

setTokens(s, bag) ==
  IF \/ (bag.idToken.obj /\ validateTokenThrows(bag.idToken))
     \/ (bag.accessToken.obj /\ validateTokenThrows(bag.accessToken))
  THEN [s EXCEPT !.thrown = "AuthSdkError"]
  ELSE
    LET idTokenKey == OrDefault(getKeyByType(s.storage, "idToken"), ID_TOKEN_STORAGE_KEY)
        accessTokenKey ==
          OrDefault(getKeyByType(s.storage, "accessToken"), ACCESS_TOKEN_STORAGE_KEY)
        refreshTokenKey ==
          OrDefault(getKeyByType(s.storage, "refreshToken"), REFRESH_TOKEN_STORAGE_KEY)
        w == setStorage(s, BagStorage(bag, idTokenKey, accessTokenKey, refreshTokenKey))
        \* read after the write
        existingTokens == getTokens(w.storage)
        s1 == handleKind(w, idTokenKey, bag.idToken, existingTokens.idToken, "idTokenCb")
        s2 == handleKind(s1, accessTokenKey, bag.accessToken,
                         existingTokens.accessToken, "accessTokenCb")
    IN handleKind(s2, refreshTokenKey, bag.refreshToken,
                  existingTokens.refreshToken, "refreshTokenCb")

----------------------------------------------------------------------------
(* renew.  A request is the transport call of one renew: its promise, its  *)
(* key, the token being renewed, and the refresh token read from storage   *)
(* when renew was called (Undef when there was none).  The transport call  *)
(* is issued in the microtasks that follow the call of renew, from the     *)
(* values read during the call, so it is modelled as issued by the call.   *)

PromisesInUse(s, reqs) == {r.promise : r \in reqs} \cup MapRange(s.renewPromise)

\* a variant of renew that does not look for a memoized promise
renewAlways(s, key) ==
  IF ~get(s.storage, key).obj THEN "reject" ELSE "request"

\* what renew(key) does: "memo" (the memoized promise is returned), "reject"
\* (no token for the key) or "request" (a new request)
renewOutcome(s, key) ==
  IF key \in DOMAIN s.renewPromise THEN "memo"
  ELSE IF ~get(s.storage, key).obj THEN "reject"
  ELSE "request"

\* the promise renew(key) returns; 0 stands for the rejected promise
renewReturns(s, reqs, key) ==
  CASE renewOutcome(s, key) = "memo" -> s.renewPromise[key]
    [] renewOutcome(s, key) = "reject" -> 0
    [] OTHER -> FreshId(PromisesInUse(s, reqs))

\* the manager's state after renew(key)
renewState(s, reqs, key) ==
  IF renewOutcome(s, key) = "request"
  THEN LET c == clearExpireEventTimeout(s, key)
       IN [c EXCEPT !.renewPromise = MapPut(@, key, FreshId(PromisesInUse(s, reqs)))]
  ELSE s

\* the renewals under way after renew(key); stage: "request" while the
\* transport has not answered, "catch" when the then callback has thrown
\* `err' and the catch callback is due, "finally" when the finally callback
\* is due (the promise will reject with `err', or resolve to `value' when
\* `err' is "")
renewRequests(s, reqs, key) ==
  IF renewOutcome(s, key) = "request"
  THEN reqs \cup {[promise |-> FreshId(PromisesInUse(s, reqs)), key |-> key,
                   token |-> get(s.storage, key),
                   refresh |-> getTokens(s.storage).refreshToken,
                   stage |-> "request", err |-> "", value |-> Undef]}
  ELSE reqs

\* _renewToken: which token of the transport's answer is the fresh one. With
\* a refresh token the answer is the bag of renewTokensWithRefresh, else it
\* is the token of sdk.token.renew.
freshTokenOf(req, answer) ==
  IF req.refresh.obj
  THEN IF isIDToken(req.token) THEN answer.idToken ELSE answer.accessToken
  ELSE answer.token

\* a variant of the catch branch that deletes the token whether or not it
\* has expired
renewCatchDeletes(s, key, err) ==
  IF err = "OAuthError" \/ err = "AuthSdkError"
  THEN LET currentToken == StGet(s.storage, key)
           r == IF currentToken.obj
                THEN emitRemoved(
                       setStorage(clearExpireEventTimeout(s, key),
                                  StDelete(s.storage, key)),
                       key, currentToken)
                ELSE emitRemoved(s, key, Undef)
       IN [emitError(r, err, key) EXCEPT !.thrown = err]
  ELSE [s EXCEPT !.thrown = err]

\* the catch branch of renew
renewCatch(s, key, err) ==
  IF err = "OAuthError" \/ err = "AuthSdkError"
  THEN LET currentToken == StGet(s.storage, key)
           r == IF currentToken.obj /\ hasExpired(currentToken)
                THEN emitRemoved(
                       setStorage(clearExpireEventTimeout(s, key),
                                  StDelete(s.storage, key)),
                       key, currentToken)
                ELSE emitRemoved(s, key, Undef)
       IN [emitError(r, err, key) EXCEPT !.thrown = err]
  ELSE [s EXCEPT !.thrown = err]

\* the finally branch of renew
renewFinally(s, key) == [s EXCEPT !.renewPromise = MapDelete(@, key)]

\* a variant of the then branch that stores the fresh token over the old one
renewThenReplaces(s, key, freshToken) ==
  LET oldToken == StGet(s.storage, key)
      a == _add(s, key, freshToken)
  IN IF a.thrown # "" THEN a
     ELSE emitRenewed(a, key, freshToken, oldToken)

\* the then callback of renew; when _add throws, the callback ends there and
\* the catch callback is due
renewThen(s, key, freshToken) ==
  LET oldToken == StGet(s.storage, key)
      r == remove(s, key)
      a == _add(r, key, freshToken)
  IN IF a.thrown # "" THEN a
     ELSE emitRenewed(a, key, freshToken, oldToken)

----------------------------------------------------------------------------
(* The expired handler. *)

\* a variant of shouldThrottleRenew that also throttles a span of 30 s
throttleInclusive(queue) ==
  LET pushed == Append(queue, now * 1000)
  IN IF Len(pushed) >= ThrottleLength
     THEN LET firstTime == Head(pushed)
              rest == Tail(pushed)
              lastTime == rest[Len(rest)]
          IN <<lastTime - firstTime <= ThrottleWindowMs, rest>>
     ELSE <<FALSE, pushed>>

\* shouldThrottleRenew: <<res, the queue afterwards>>
shouldThrottleRenew(queue) ==
  LET pushed == Append(queue, now * 1000)
  IN IF Len(pushed) >= ThrottleLength
     THEN LET firstTime == Head(pushed)
              rest == Tail(pushed)
              lastTime == rest[Len(rest)]
          IN <<lastTime - firstTime < ThrottleWindowMs, rest>>
     ELSE <<FALSE, pushed>>

\* a variant of the handler that looks at autoRemove first
expiredOutcomeRemovesFirst(queue) ==
  IF options.autoRemove THEN "remove"
  ELSE IF options.autoRenew
  THEN IF shouldThrottleRenew(queue)[1] THEN "throttle" ELSE "renew"
  ELSE "nothing"

\* what onTokenExpiredHandler does: "throttle", "renew", "remove" or "nothing"
expiredOutcome(queue) ==
  IF options.autoRenew
  THEN IF shouldThrottleRenew(queue)[1] THEN "throttle" ELSE "renew"
  ELSE IF options.autoRemove THEN "remove" ELSE "nothing"

onTokenExpiredHandler(s, reqs, key) ==
  CASE expiredOutcome(renewTimeQueue) = "throttle" -> emitError(s, "AuthSdkError", "")
    [] expiredOutcome(renewTimeQueue) = "renew" ->
         [renewState(s, reqs, key) EXCEPT !.calls = Append(@, Call("renew", key, Undef))]
    [] expiredOutcome(renewTimeQueue) = "remove" ->
         [remove(s, key) EXCEPT !.calls = Append(@, Call("remove", key, Undef))]
    [] OTHER -> s

----------------------------------------------------------------------------
(* Cross-tab synchronisation.  A serialized storage value is null, a       *)
(* string that is no JSON, or the JSON of a token storage; two values are  *)
(* the same string exactly when they are equal.                            *)

NullValue == [kind |-> "null", tokens |-> <<>>]
GarbageValue == [kind |-> "garbage", tokens |-> <<>>]
JsonValue(st) == [kind |-> "json", tokens |-> st]

\* JSON.parse(value) || {}, {} when JSON.parse throws
getTokensFromStorageValue(value) ==
  IF value.kind = "json" THEN value.tokens ELSE <<>>

\* a variant of the first loop that emits 'added' for new keys only
RECURSIVE emitAddedForNewKeys(_, _, _, _)
emitAddedForNewKeys(s, newTokens, oldTokens, i) ==
  IF i > Len(newTokens) THEN s
  ELSE LET key == newTokens[i].key
           oldToken == StGet(oldTokens, key)
           newToken == newTokens[i].token
       IN emitAddedForNewKeys(
            IF ~oldToken.obj THEN emitAdded(s, key, newToken) ELSE s,
            newTokens, oldTokens, i + 1)

RECURSIVE emitAddedFrom(_, _, _, _)
emitAddedFrom(s, newTokens, oldTokens, i) ==
  IF i > Len(newTokens) THEN s
  ELSE LET key == newTokens[i].key
           oldToken == StGet(oldTokens, key)
           newToken == newTokens[i].token
       IN emitAddedFrom(
            IF oldToken # newToken THEN emitAdded(s, key, newToken) ELSE s,
            newTokens, oldTokens, i + 1)

RECURSIVE emitRemovedFrom(_, _, _, _)
emitRemovedFrom(s, newTokens, oldTokens, i) ==
  IF i > Len(oldTokens) THEN s
  ELSE LET key == oldTokens[i].key
           oldToken == oldTokens[i].token
           newToken == StGet(newTokens, key)
       IN emitRemovedFrom(
            IF ~newToken.obj THEN emitRemoved(s, key, oldToken) ELSE s,
            newTokens, oldTokens, i + 1)

emitEventsForCrossTabsStorageUpdate(s, newValue, oldValue) ==
  LET oldTokens == getTokensFromStorageValue(oldValue)
      newTokens == getTokensFromStorageValue(newValue)
  IN emitRemovedFrom(emitAddedFrom(s, newTokens, oldTokens, 1),
                     newTokens, oldTokens, 1)

handleCrossTabsStorageChange(s, newValue, oldValue, e) ==
  emitEventsForCrossTabsStorageUpdate(resetExpireEventTimeoutAll(s, e), newValue, oldValue)

\* JavaScript's truthiness of event.key: null and '' are falsy
truthyKey(key) == key # NullKey /\ key # EmptyKey

\* a variant of the listener's test that does not compare the values
skipsOtherKeysOnly(key, newValue, oldValue) == truthyKey(key) /\ key # StorageKey

\* the storage listener returns without scheduling the handler
storageListenerSkips(key, newValue, oldValue) ==
  truthyKey(key) /\ (key # StorageKey \/ newValue = oldValue)

----------------------------------------------------------------------------
(* The idx transaction: getFlowSpecification, run, proceed.                *)
(*                                                                         *)
(* The collaborators of run (setFlow, the transaction manager, interact,   *)
(* introspect, remediate, the flow monitor, the token endpoint) are the    *)
(* environment: what each of them answers is the `outcome' of the          *)
(* invocation.  A flag stands for an object that is present or absent; an  *)
(* error is named after the call that failed.                              *)

\* an absent flow identifier, an absent remediation flow, no error
NoFlow == "undefined"
NoRemediators == "undefined"
NoError == ""

\* the monitor a flow specification carries: its class and its identity
NoMonitor == [class |-> "undefined", id |-> 0]
FlowMonitor(class, id) == [class |-> class, id |-> id]

\* the action whitelist of the password recovery flow
RecoverActions ==
  <<"currentAuthenticator-recover", "currentAuthenticatorEnrollment-recover">>

\* RunOptions: actions is meaningful when hasActions
FlowSpecification(flow, remediators, flowMonitor, hasActions, actions, sso) ==
  [flow |-> flow, remediators |-> remediators, flowMonitor |-> flowMonitor,
   hasActions |-> hasActions, actions |-> actions, sso |-> sso]

\* every identifier gets the authentication flow
flowSpecificationOfAuthentication(id, given) ==
  LET flow == IF given = NoFlow THEN "proceed" ELSE given
  IN FlowSpecification(flow, "AuthenticationFlow",
       FlowMonitor("AuthenticationFlowMonitor", id), FALSE, <<>>, TRUE)

\* getFlowSpecification(oktaAuth, flow = 'proceed'); id: the identity of the
\* monitor that `new' constructs
getFlowSpecification(id, given) ==
  LET flow == IF given = NoFlow THEN "proceed" ELSE given
  IN CASE flow \in {"register", "signup", "enrollProfile"} ->
            FlowSpecification(flow, "RegistrationFlow",
              FlowMonitor("RegistrationFlowMonitor", id), FALSE, <<>>, FALSE)
       [] flow \in {"recoverPassword", "resetPassword"} ->
            FlowSpecification(flow, "PasswordRecoveryFlow",
              FlowMonitor("PasswordRecoveryFlowMonitor", id), TRUE,
              RecoverActions, FALSE)
       [] OTHER ->
            FlowSpecification(flow, "AuthenticationFlow",
              FlowMonitor("AuthenticationFlowMonitor", id), FALSE, <<>>, TRUE)

\* the saved transaction meta: its interaction handle (may be undefined) and
\* its flow identifier
NoMeta == [saved |-> FALSE, interactionHandle |-> FALSE, flow |-> NoFlow]
Meta(interactionHandle, flow) ==
  [saved |-> TRUE, interactionHandle |-> interactionHandle, flow |-> flow]

\* the transaction manager's store: the meta, whether a raw idx response is
\* saved with it, and whether the shared (cross-tab) storage holds the meta
Store(meta, idxResponse, shared) ==
  [meta |-> meta, idxResponse |-> idxResponse, shared |-> shared]
NoStore == Store(NoMeta, FALSE, FALSE)

\* getSavedTransactionMeta
getSavedTransactionMeta(store) == store.meta

\* transactionManager.clear({ clearSharedStorage })
clearTransaction(store, clearSharedStorage) ==
  Store(NoMeta, FALSE, IF clearSharedStorage THEN FALSE ELSE store.shared)

\* transactionManager.saveIdxResponse(raw)
saveIdxResponse(store) == [store EXCEPT !.idxResponse = TRUE]

\* the names of the remediations that have a remediator class
RemediationNames == {"select-enroll-profile", "identify"}

RECURSIVE someNamed(_, _)
someNamed(neededToProceed, name) ==
  IF neededToProceed = <<>> THEN FALSE
  ELSE Head(neededToProceed) = name \/ someNamed(Tail(neededToProceed), name)

\* REGISTRATION is looked for in the first remediation only
getEnabledFeaturesOfFirst(idxResponse) ==
  (IF idxResponse.recover THEN <<"PASSWORD_RECOVERY">> ELSE <<>>)
    \o (IF idxResponse.neededToProceed # <<>>
           /\ Head(idxResponse.neededToProceed) = "select-enroll-profile"
        THEN <<"REGISTRATION">> ELSE <<>>)
    \o (IF someNamed(idxResponse.neededToProceed, "redirect-idp")
        THEN <<"SOCIAL_IDP">> ELSE <<>>)

\* getEnabledFeatures(idxResponse); recover: actions has
\* 'currentAuthenticator-recover'
getEnabledFeatures(idxResponse) ==
  (IF idxResponse.recover THEN <<"PASSWORD_RECOVERY">> ELSE <<>>)
    \o (IF someNamed(idxResponse.neededToProceed, "select-enroll-profile")
        THEN <<"REGISTRATION">> ELSE <<>>)
    \o (IF someNamed(idxResponse.neededToProceed, "redirect-idp")
        THEN <<"SOCIAL_IDP">> ELSE <<>>)

\* getAvailableSteps(remediations): a step for each remediation that has a
\* remediator class, in order
RECURSIVE getAvailableSteps(_)
getAvailableSteps(remediations) ==
  IF remediations = <<>> THEN <<>>
  ELSE (IF Head(remediations) \in RemediationNames
        THEN <<Head(remediations)>> ELSE <<>>)
         \o getAvailableSteps(Tail(remediations))

\* the locals of run at its start (lines 88-100) and the store it works on;
\* thrown: the error that left the try block; interactionHandle: "saved" (the
\* one of the saved meta) or "interact" (the one interact returned);
\* introspected: the handle that introspect was called with; pc: "running",
\* the call that run awaits when it has given control back, or "returned"
Locals(store) ==
  [ status |-> "PENDING", shouldClearTransaction |-> FALSE,
    clearSharedStorage |-> TRUE, tokens |-> FALSE, nextStep |-> FALSE,
    messages |-> FALSE, meta |-> NoMeta, metaFromResp |-> NoMeta,
    hasFeatures |-> FALSE, enabledFeatures |-> <<>>, availableSteps |-> <<>>,
    idxResponse |-> FALSE, thrown |-> NoError, calls |-> <<>>, store |-> store,
    interactionHandle |-> "undefined", introspected |-> "undefined",
    pc |-> "running" ]

\* the calls of run that reach a collaborator that can fail
FailingCalls ==
  {"setFlow", "getSavedTransactionMeta", "interact", "introspect", "remediate",
   "isFinished", "exchangeCodeForTokens"}

\* the calls that run awaits
AwaitedCalls ==
  {"interact", "introspect", "remediate", "isFinished", "exchangeCodeForTokens"}

\* run has given control back at an await
Suspended(f) == f.pc \in AwaitedCalls

\* a call of a collaborator that answers at once, which fails when the
\* outcome says so
Await(f, name, outcome) ==
  [f EXCEPT !.calls = Append(@, name),
            !.thrown = IF outcome.fail = name THEN name ELSE @]

\* `await name(...)': the call is made and run gives control back
Suspend(f, name) == [f EXCEPT !.calls = Append(@, name), !.pc = name]

\* run takes control again: the awaited call has answered, or has failed
Resumed(f, outcome) ==
  [f EXCEPT !.thrown = IF outcome.fail = f.pc THEN f.pc ELSE @,
            !.pc = "running"]

Throw(f, error) == [f EXCEPT !.thrown = error]

\* lines 104-109
setFlow(f, runOptions, outcome) ==
  IF runOptions.flow # NoFlow THEN Await(f, "setFlow", outcome) ELSE f

\* a variant that starts a new transaction whatever is saved
resumeAfresh(f, runOptions, outcome) ==
  LET g == Await(f, "getSavedTransactionMeta", outcome)
  IN IF g.thrown # NoError THEN g
     ELSE Suspend([g EXCEPT !.calls = Append(@, "clear"),
                            !.store = clearTransaction(@, TRUE)],
                  "interact")

\* lines 111-118: resume the saved transaction, or clear the store and call
\* interact to start a new one
resume(f, runOptions, outcome) ==
  LET g == Await(f, "getSavedTransactionMeta", outcome)
      saved == getSavedTransactionMeta(g.store)
  IN IF g.thrown # NoError THEN g
     ELSE IF saved.interactionHandle
     THEN [g EXCEPT !.metaFromResp = saved, !.interactionHandle = "saved"]
     ELSE Suspend([g EXCEPT !.calls = Append(@, "clear"),
                            !.store = clearTransaction(@, TRUE)],
                  "interact")

\* lines 118-120: interact has answered; it has saved the meta of the new
\* transaction
interacted(f, runOptions, outcome) ==
  LET r == Resumed(f, outcome)
      fresh == Meta(TRUE, runOptions.flow)
  IN IF r.thrown # NoError THEN r
     ELSE [r EXCEPT !.metaFromResp = fresh, !.store.meta = fresh,
                    !.interactionHandle = "interact"]

\* line 124: introspect is called with the interaction handle
introspect(f, outcome) ==
  IF f.thrown # NoError THEN f
  ELSE Suspend([f EXCEPT !.introspected = f.interactionHandle], "introspect")

\* a variant that gives the snapshot only when interact was called
startTransactionIfFresh(f, outcome) ==
  IF f.interactionHandle = "interact"
  THEN [f EXCEPT !.meta = f.metaFromResp,
                 !.hasFeatures = TRUE,
                 !.enabledFeatures = getEnabledFeatures(outcome.idxResponse),
                 !.availableSteps = getAvailableSteps(outcome.idxResponse.neededToProceed)]
  ELSE f

\* lines 127-130: the start of a transaction
startTransaction(f, outcome) ==
  [f EXCEPT !.meta = f.metaFromResp,
            !.hasFeatures = TRUE,
            !.enabledFeatures = getEnabledFeatures(outcome.idxResponse),
            !.availableSteps = getAvailableSteps(outcome.idxResponse.neededToProceed)]

\* lines 124-144: introspect has answered; the transaction is started, or
\* remediate is called
introspected(f, runOptions, outcome) ==
  LET r == Resumed(f, outcome)
      g == [r EXCEPT !.idxResponse = TRUE]
  IN IF r.thrown # NoError THEN r
     ELSE IF runOptions.remediators = NoRemediators /\ ~runOptions.hasActions
     THEN startTransaction(g, outcome)
     ELSE Suspend(g, "remediate")

\* the interaction code is exchanged whatever the monitor says
exchangeUnmonitored(f, runOptions, outcome) ==
  Suspend(f, "exchangeCodeForTokens")

\* lines 163-165: the flow ended with an interaction code, the monitor is
\* asked
exchange(f, runOptions, outcome) ==
  IF runOptions.flowMonitor = NoMonitor THEN Throw(f, "TypeError")
  ELSE Suspend(f, "isFinished")

\* lines 165-177: the monitor has answered; the interaction code is
\* exchanged when the flow is finished
monitored(f, runOptions, outcome) ==
  LET r == Resumed(f, outcome)
  IN IF r.thrown # NoError THEN r
     ELSE IF ~outcome.finished THEN Throw(r, "AuthSdkError")
     ELSE Suspend(r, "exchangeCodeForTokens")

\* lines 177-187: the token endpoint has answered
exchanged(f, runOptions, outcome) ==
  LET r == Resumed(f, outcome)
  IN IF r.thrown # NoError THEN r
     ELSE [r EXCEPT !.tokens = TRUE, !.status = "SUCCESS",
                    !.shouldClearTransaction = TRUE]

\* lines 155-188: the status of the remediated transaction
resolveStatus(f, runOptions, outcome) ==
  LET r == outcome.remediated
      t == IF r.terminal
           THEN [f EXCEPT !.status = "TERMINAL",
                          !.shouldClearTransaction = TRUE,
                          !.clearSharedStorage = FALSE]
           ELSE f
  IN IF r.canceled
     THEN [t EXCEPT !.status = "CANCELED", !.shouldClearTransaction = TRUE]
     ELSE IF r.idxResponse /\ r.interactionCode
     THEN exchange(t, runOptions, outcome)
     ELSE t

\* lines 150-153
saveIntermediate(f, r) ==
  IF r.nextStep /\ r.idxResponse
  THEN [f EXCEPT !.calls = Append(@, "saveIdxResponse"),
                 !.store = saveIdxResponse(@)]
  ELSE f

\* lines 144-188: remediate has answered; the status is resolved
remediateTransaction(f, runOptions, outcome) ==
  LET g == Resumed(f, outcome)
      r == outcome.remediated
      n == [g EXCEPT !.nextStep = r.nextStep, !.messages = r.messages]
  IN IF g.thrown # NoError THEN g
     ELSE resolveStatus(saveIntermediate(n, r), runOptions, outcome)

\* lines 102-124: the try block up to its first await
tryRun(store, runOptions, outcome) ==
  LET a == setFlow(Locals(store), runOptions, outcome)
      b == IF a.thrown # NoError THEN a ELSE resume(a, runOptions, outcome)
  IN IF Suspended(b) THEN b ELSE introspect(b, outcome)

\* the try block from the await that run was suspended at to the next one
continueRun(f, runOptions, outcome) ==
  CASE f.pc = "interact" -> introspect(interacted(f, runOptions, outcome), outcome)
    [] f.pc = "introspect" -> introspected(f, runOptions, outcome)
    [] f.pc = "remediate" -> remediateTransaction(f, runOptions, outcome)
    [] f.pc = "isFinished" -> monitored(f, runOptions, outcome)
    [] OTHER -> exchanged(f, runOptions, outcome)

\* the error is kept but the status is left as it was
catchKeepsStatus(f) ==
  IF f.thrown = NoError THEN f
  ELSE [f EXCEPT !.shouldClearTransaction = TRUE]

\* lines 190-194
catch(f) ==
  IF f.thrown = NoError THEN f
  ELSE [f EXCEPT !.status = "FAILURE", !.shouldClearTransaction = TRUE]

\* the transaction is cleared only after a failure
clearIfFailed(f) ==
  IF f.thrown # NoError
  THEN [f EXCEPT !.calls = Append(@, "clear"),
                 !.store = clearTransaction(@, f.clearSharedStorage)]
  ELSE f

\* lines 196-198
clearIfShould(f) ==
  IF f.shouldClearTransaction
  THEN [f EXCEPT !.calls = Append(@, "clear"),
                 !.store = clearTransaction(@, f.clearSharedStorage)]
  ELSE f

\* lines 190-210: unless run is suspended at an await, the try block has
\* ended: catch, clear and return
endRun(f) ==
  IF Suspended(f) THEN f
  ELSE [clearIfShould(catch(f)) EXCEPT !.pc = "returned"]

\* lines 200-210: the fields of the returned transaction; has: the optional
\* fields it carries
Returned(f) ==
  [ status |-> f.status,
    has |-> (IF f.meta.saved THEN {"meta"} ELSE {})
              \cup (IF f.hasFeatures THEN {"enabledFeatures", "availableSteps"} ELSE {})
              \cup (IF f.tokens THEN {"tokens"} ELSE {})
              \cup (IF f.nextStep THEN {"nextStep"} ELSE {})
              \cup (IF f.messages THEN {"messages"} ELSE {})
              \cup (IF f.thrown # NoError THEN {"error"} ELSE {}),
    idxResponse |-> f.idxResponse,
    meta |-> f.meta,
    enabledFeatures |-> f.enabledFeatures,
    availableSteps |-> f.availableSteps,
    error |-> f.thrown ]

\* run(authClient, options), from the call to its first await, or to its
\* return when it awaits nothing: the promise (rejected: the error it
\* rejects with), the locals and the options of the invocation
run(store, runOptions, outcome) ==
  [ rejected |-> NoError, f |-> endRun(tryRun(store, runOptions, outcome)),
    options |-> runOptions ]

\* run takes control again after the call it awaited, up to the next await
\* or to its return; store: the transaction store as it is by now
resumeRun(invocation, store, outcome) ==
  [invocation EXCEPT
     !.f = endRun(continueRun([@ EXCEPT !.store = store],
                              invocation.options, outcome))]

\* canProceed(authClient, options)
canProceed(store) == getSavedTransactionMeta(store).saved

NoOptions ==
  FlowSpecification(NoFlow, NoRemediators, NoMonitor, FALSE, <<>>, FALSE)

\* the promise of proceed rejects before run is called: the locals are
\* those of no run
Rejects(f, error) ==
  [ rejected |-> error, f |-> [f EXCEPT !.pc = "returned"],
    options |-> NoOptions ]

\* lines 573-578: run with the flow specification of the saved flow
proceedToRun(f, id, outcome) ==
  LET ran == run(f.store,
                 getFlowSpecification(id, getSavedTransactionMeta(f.store).flow),
                 outcome)
  IN [ran EXCEPT !.f.calls = f.calls \o @]

\* proceed runs whether or not a transaction is saved
proceedUnsaved(store, id, outcome) ==
  LET g == Await(Locals(store), "getSavedTransactionMeta", outcome)
  IN IF g.thrown # NoError THEN Rejects(g, g.thrown)
     ELSE proceedToRun(g, id, outcome)

\* proceed(authClient, options), up to the first await of the run it
\* starts: the lookup of the saved meta is outside any try, so that its
\* error rejects the promise; id: the identity of the monitor constructed
proceed(store, id, outcome) ==
  LET g == Await(Locals(store), "getSavedTransactionMeta", outcome)
  IN IF g.thrown # NoError THEN Rejects(g, g.thrown)
     ELSE IF ~canProceed(store) THEN Rejects(g, "AuthSdkError")
     ELSE proceedToRun(g, id, outcome)

\* no remediation, no response
NoRemediated ==
  [terminal |-> FALSE, canceled |-> FALSE, interactionCode |-> FALSE,
   nextStep |-> FALSE, idxResponse |-> FALSE, messages |-> FALSE]
NoIdxResponse == [neededToProceed |-> <<>>, recover |-> FALSE]
NoOutcome ==
  [fail |-> NoError, idxResponse |-> NoIdxResponse,
   remediated |-> NoRemediated, finished |-> FALSE]

\* before the first idx operation
NoTransaction ==
  [ op |-> "none", given |-> NoFlow, outcome |-> NoOutcome,
    rejected |-> NoError, returned |-> Returned(Locals(NoStore)),
    calls |-> <<>>, options |-> NoOptions, introspected |-> "undefined",
    saw |-> NoStore, left |-> NoStore ]

----------------------------------------------------------------------------
(* The state machine. *)

Apply(s) ==
  /\ storage' = s.storage
  /\ expireTimeouts' = s.expireTimeouts
  /\ renewPromise' = s.renewPromise
  /\ timers' = s.timers
  /\ events' = s.events

\* op: the operation; key: its key ("" when it has none); promise: the
\* promise it returned or settled (0 when none); writes, cancels: its calls
\* of setStorage and the live timers it cancelled; memo: renew returned the
\* memoized promise; token, bag, event: the argument of add (or the token
\* the promise of a renewal resolves to), of setTokens and of the storage
\* listener; value: what hasExpired returned
Result(op, key, s, promise) ==
  [op |-> op, key |-> key, thrown |-> s.thrown, promise |-> promise,
   writes |-> s.writes, cancels |-> s.cancels, calls |-> s.calls,
   memo |-> FALSE, token |-> Undef, bag |-> NoTokens, event |-> <<>>,
   value |-> FALSE]

\* the constructor: empty maps, then setExpireEventTimeoutAll; e: what
\* getStorage throws
Constructed(st, e) ==
  setExpireEventTimeoutAll(
    [ storage |-> st, expireTimeouts |-> EmptyMap, renewPromise |-> EmptyMap,
      timers |-> {}, events |-> <<>>, writes |-> 0, cancels |-> 0, thrown |-> "",
      calls |-> <<>> ], e)

InitManager(st, opts, e) ==
  /\ now = 0
  /\ options = opts
  /\ storage = Constructed(st, e).storage
  /\ expireTimeouts = Constructed(st, e).expireTimeouts
  /\ renewPromise = Constructed(st, e).renewPromise
  /\ timers = Constructed(st, e).timers
  /\ events = Constructed(st, e).events
  /\ requests = {}
  /\ result = Result("constructor", "", Constructed(st, e), 0)
  /\ renewTimeQueue = <<>>
  /\ attempts = <<>>
  /\ prev = <<>>
  /\ crossTab = <<>>

\* a token manager whose client has started no idx transaction, constructed
\* over a storage that can be read
InitWith(st, opts) ==
  /\ InitManager(st, opts, "")
  /\ transactionMeta = NoStore
  /\ transaction = NoTransaction
  /\ runs = EmptyBag
  /\ call = NoCall

\* add(key, token), the application's call
Add(puts) ==
  \E e \in puts :
    /\ Apply(add(Cur, e.key, e.token))
    /\ result' = [Result("add", e.key, add(Cur, e.key, e.token), 0)
                    EXCEPT !.token = e.token]
    /\ UNCHANGED <<requests, now, renewTimeQueue, options, crossTab>>

\* setTokens(bag, accessTokenCb, idTokenCb, refreshTokenCb)
SetTokens(bags) ==
  \E bag \in bags :
    /\ Apply(setTokens(Cur, bag))
    /\ result' = [Result("setTokens", "", setTokens(Cur, bag), 0) EXCEPT !.bag = bag]
    /\ UNCHANGED <<requests, now, renewTimeQueue, options, crossTab>>

Remove(keys) ==
  \E key \in keys :
    /\ Apply(remove(Cur, key))
    /\ result' = Result("remove", key, remove(Cur, key), 0)
    /\ UNCHANGED <<requests, now, renewTimeQueue, options, crossTab>>

Clear ==
  /\ Apply(clear(Cur))
  /\ result' = Result("clear", "", clear(Cur), 0)
  /\ UNCHANGED <<requests, now, renewTimeQueue, options, crossTab>>

\* _clearExpireEventTimeoutAll(), as the manager exposes it
ClearExpireEventTimeoutAll ==
  /\ Apply(clearExpireEventTimeoutAll(Cur))
  /\ result' = Result("clearTimeouts", "", clearExpireEventTimeoutAll(Cur), 0)
  /\ UNCHANGED <<requests, now, renewTimeQueue, options, crossTab>>

\* _resetExpireEventTimeoutAll(), as the manager exposes it
ResetExpireEventTimeoutAll ==
  \E e \in StorageErrors :
    /\ Apply(resetExpireEventTimeoutAll(Cur, e))
    /\ result' = Result("resetTimeouts", "", resetExpireEventTimeoutAll(Cur, e), 0)
    /\ UNCHANGED <<requests, now, renewTimeQueue, options, crossTab>>

\* renew(key) called by the application
Renew(keys, maxRequests) ==
  \E key \in keys :
    /\ Cardinality(renewRequests(Cur, requests, key)) <= maxRequests
    /\ Apply(renewState(Cur, requests, key))
    /\ requests' = renewRequests(Cur, requests, key)
    /\ result' = [Result("renew", key, renewState(Cur, requests, key),
                          renewReturns(Cur, requests, key))
                    EXCEPT !.thrown = IF renewOutcome(Cur, key) = "reject"
                                      THEN "AuthSdkError" ELSE "",
                           !.memo = renewOutcome(Cur, key) = "memo"]
    /\ UNCHANGED <<now, renewTimeQueue, options, crossTab>>

\* the answers of the transport to a request, with tokens of `tokens'
Answers(req, tokens) ==
  IF req.refresh.obj
  THEN [ idToken : {t \in tokens : isIDToken(t)} \cup {Undef},
         accessToken : {t \in tokens : isAccessToken(t)} \cup {Undef} ]
  ELSE [ token : {t \in tokens : t.kind = req.token.kind} ]

\* the transport answers a request: the then callback runs
RenewSucceed(tokens) ==
  \E req \in requests :
    \E answer \in Answers(req, tokens) :
      LET s == renewThen(Cur, req.key, freshTokenOf(req, answer))
      IN /\ req.stage = "request"
         /\ Apply(s)
         /\ requests' = (requests \ {req})
                          \cup {[req EXCEPT !.stage = IF s.thrown = "" THEN "finally"
                                                     ELSE "catch",
                                            !.err = s.thrown,
                                            !.value = IF s.thrown = ""
                                                      THEN freshTokenOf(req, answer)
                                                      ELSE Undef]}
         /\ result' = [Result("renewSettled", req.key, s, req.promise)
                         EXCEPT !.token = IF s.thrown = ""
                                          THEN freshTokenOf(req, answer) ELSE Undef]
         /\ UNCHANGED <<now, renewTimeQueue, options, crossTab>>

\* the errors of the transport
TransportErrors == {"OAuthError", "AuthSdkError", "Error"}

\* the catch callback runs: the transport has failed the request, or the
\* then callback has thrown
RenewFail ==
  \E req \in requests :
    \E err \in (IF req.stage = "catch" THEN {req.err} ELSE TransportErrors) :
      LET s == renewCatch(Cur, req.key, err)
      IN /\ req.stage \in {"request", "catch"}
         /\ Apply(s)
         /\ requests' = (requests \ {req})
                          \cup {[req EXCEPT !.stage = "finally", !.err = err]}
         /\ result' = Result("renewFailed", req.key, s, req.promise)
         /\ UNCHANGED <<now, renewTimeQueue, options, crossTab>>

\* the finally callback runs, and the promise of the renewal settles
RenewFinally ==
  \E req \in requests :
    LET s == renewFinally(Cur, req.key)
    IN /\ req.stage = "finally"
       /\ Apply(s)
       /\ requests' = requests \ {req}
       /\ result' = [Result("renewFinally", req.key, s, req.promise)
                       EXCEPT !.thrown = req.err, !.token = req.value]
       /\ UNCHANGED <<now, renewTimeQueue, options, crossTab>>

TimerDue(t) == t.setAt * 1000 + t.wait <= now * 1000

\* a timer fires: emitExpired, and the expired handler with it
Expire(t, maxRequests) ==
  LET fired == emitExpired([Cur EXCEPT !.timers = @ \ {t}], t.key, t.token)
      s == onTokenExpiredHandler(fired, requests, t.key)
      renews == expiredOutcome(renewTimeQueue) = "renew"
  IN /\ TimerDue(t)
     /\ renews => Cardinality(renewRequests(fired, requests, t.key)) <= maxRequests
     /\ Apply(s)
     /\ requests' = IF renews THEN renewRequests(fired, requests, t.key) ELSE requests
     /\ renewTimeQueue' = IF options.autoRenew
                          THEN shouldThrottleRenew(renewTimeQueue)[2]
                          ELSE renewTimeQueue
     /\ result' = Result("expired", t.key, s,
                         IF renews THEN renewReturns(fired, requests, t.key) ELSE 0)
     /\ UNCHANGED <<now, options, crossTab>>

\* a timer fires, while the handler's queue holds fewer than maxQueue times
TimerFire(maxRequests, maxQueue) ==
  /\ Len(renewTimeQueue) < maxQueue
  /\ \E t \in timers : Expire(t, maxRequests)

\* hasExpired(token), as the manager exposes it
HasExpired(tokens) ==
  \E token \in tokens :
    /\ result' = [Result("hasExpired", "", Cur, 0)
                    EXCEPT !.token = token, !.value = hasExpired(token)]
    /\ events' = <<>>
    /\ UNCHANGED <<storage, expireTimeouts, renewPromise, timers, requests, now,
                   renewTimeQueue, options, crossTab>>

\* the clock advances by `step' seconds
Tick(step, max) ==
  /\ now + step <= max
  /\ now' = now + step
  /\ result' = Result("tick", "", Cur, 0)
  /\ events' = <<>>
  /\ UNCHANGED <<storage, expireTimeouts, renewPromise, timers, requests,
                 renewTimeQueue, options, crossTab>>

\* what another tab may leave in the token storage
OtherTabStorages(puts) ==
  {StDelete(storage, k) : k \in StKeys(storage)}
    \cup {StPut(storage, e.key, e.token) : e \in puts}

\* the storage events: <<key, newValue, oldValue, the storage afterwards>>
StorageEvents(puts) ==
  {<<StorageKey, JsonValue(st), JsonValue(storage), st>> :
     st \in OtherTabStorages(puts)}
    \cup { <<NullKey, NullValue, NullValue, <<>> >>,
           <<StorageKey, JsonValue(storage), JsonValue(storage), storage>>,
           <<OtherStorageKey, GarbageValue, NullValue, storage>>,
           <<EmptyKey, GarbageValue, GarbageValue, storage>> }

\* the storage listener, run when another document changed the storage
StorageEvent(puts) ==
  \E e \in StorageEvents(puts) :
    /\ Len(crossTab) < MaxCrossTab
    /\ storage' = e[4]
    /\ crossTab' = IF storageListenerSkips(e[1], e[2], e[3])
                   THEN crossTab
                   ELSE Append(crossTab, [key |-> e[1], newValue |-> e[2],
                                          oldValue |-> e[3]])
    /\ result' = [Result("storageEvent", e[1], Cur, 0)
                    EXCEPT !.event = <<e[1], e[2], e[3]>>]
    /\ events' = <<>>
    /\ UNCHANGED <<expireTimeouts, renewPromise, timers, requests, now,
                   renewTimeQueue, options>>

\* the delayed callback of the storage listener
CrossTabChange ==
  /\ crossTab # <<>>
  /\ \E e \in StorageErrors :
       LET s == handleCrossTabsStorageChange(Cur, Head(crossTab).newValue,
                                             Head(crossTab).oldValue, e)
       IN /\ Apply(s)
          /\ result' = [Result("crossTab", "", s, 0)
                          EXCEPT !.event = <<Head(crossTab).key, Head(crossTab).newValue,
                                             Head(crossTab).oldValue>>]
  /\ crossTab' = Tail(crossTab)
  /\ UNCHANGED <<requests, now, renewTimeQueue, options>>

\* _emitEventsForCrossTabsStorageUpdate(newValue, oldValue), as the manager
\* exposes it
EmitEventsForCrossTabs(values) ==
  \E newValue \in values, oldValue \in values :
    LET s == emitEventsForCrossTabsStorageUpdate(Cur, newValue, oldValue)
    IN /\ Apply(s)
       /\ result' = [Result("emitCrossTabs", "", s, 0)
                       EXCEPT !.event = <<"", newValue, oldValue>>]
       /\ UNCHANGED <<requests, now, renewTimeQueue, options, crossTab>>

----------------------------------------------------------------------------
(* The manager's life: every operation, on the access token.               *)

LifeKeys == {ACCESS_TOKEN_STORAGE_KEY}
\* the access token; it expires at now = 1
LifeTokens == {Tok("access", ExpireEarlySeconds + 1)}
LifeBags ==
  [ idToken : {Undef}, accessToken : LifeTokens \cup {Undef, NoScopes},
    refreshToken : {Undef} ]
\* what another tab writes
LifePuts == Entries(LifeKeys, LifeTokens)
\* the clock stops when the last token has reached its expire time
Horizon(tokens) ==
  CHOOSE h \in {Max2(getExpireTime(t), 0) : t \in tokens} :
    \A t \in tokens : getExpireTime(t) <= h
\* token storages found at construction
LifeStorages ==
  {<<>>} \cup {<<Entry(ACCESS_TOKEN_STORAGE_KEY, t)>> : t \in LifeTokens}

\* DEFAULT_OPTIONS: autoRenew and autoRemove
DefaultOptions == [autoRenew |-> TRUE, autoRemove |-> TRUE]

\* the storage found at construction may fail to be read
Init ==
  \E st \in LifeStorages, e \in StorageErrors :
    /\ InitManager(st, DefaultOptions, e)
    /\ transactionMeta = NoStore
    /\ transaction = NoTransaction
    /\ runs = EmptyBag
    /\ call = NoCall

\* the histories are not kept
NoHistory == UNCHANGED <<attempts, prev>> /\ UNCHANGED idxVars /\ UNCHANGED call

Next ==
  \/ Add(Entries(LifeKeys, LifeTokens)) /\ NoHistory
  \/ SetTokens(LifeBags) /\ NoHistory
  \/ Remove(LifeKeys) /\ NoHistory
  \/ Clear /\ NoHistory
  \/ ClearExpireEventTimeoutAll /\ NoHistory
  \/ ResetExpireEventTimeoutAll /\ NoHistory
  \/ Renew(LifeKeys, MaxRequests) /\ NoHistory
  \/ RenewSucceed(LifeTokens) /\ NoHistory
  \/ RenewFail /\ NoHistory
  \/ RenewFinally /\ NoHistory
  \/ TimerFire(MaxRequests, MaxQueue) /\ NoHistory
  \/ Tick(1, Horizon(LifeTokens)) /\ NoHistory
  \/ StorageEvent(LifePuts) /\ NoHistory
  \/ CrossTabChange /\ NoHistory

Spec == Init /\ [][Next]_vars

----------------------------------------------------------------------------
(* The token store: add, setTokens, remove and clear on the three kinds of *)
(* token and their keys; the storage before each operation is kept.        *)

StoreBags ==
  [ idToken : TokensOfKind("id") \cup {Undef, NoScopes},
    accessToken : TokensOfKind("access") \cup {Undef, NoScopes},
    refreshToken : TokensOfKind("refresh") \cup {Undef} ]

\* add puts an id or an access token under the id or the access key, a
\* refresh token under the refresh key, or is given a token that is not valid
StorePuts ==
  Entries({ID_TOKEN_STORAGE_KEY, ACCESS_TOKEN_STORAGE_KEY},
          TokensOfKind("id") \cup TokensOfKind("access"))
    \cup Entries({REFRESH_TOKEN_STORAGE_KEY}, TokensOfKind("refresh"))
    \cup Entries({ACCESS_TOKEN_STORAGE_KEY}, InvalidTokens)

KeepPrev == prev' = storage /\ UNCHANGED attempts /\ UNCHANGED idxVars /\ UNCHANGED call

InitStore == InitWith(<<>>, DefaultOptions)

NextStore ==
  \/ Add(StorePuts) /\ KeepPrev
  \/ SetTokens(StoreBags) /\ KeepPrev
  \/ Remove(Keys) /\ KeepPrev
  \/ Clear /\ KeepPrev

SpecStore == InitStore /\ [][NextStore]_vars

----------------------------------------------------------------------------
(* Properties of setTokens and add.                                        *)

\* the kinds of a bag: its slot, the type getKeyByType looks for, the
\* default key and the callback of the kind
Slots == {"idToken", "accessToken", "refreshToken"}
DefaultKey(slot) ==
  CASE slot = "idToken" -> ID_TOKEN_STORAGE_KEY
    [] slot = "accessToken" -> ACCESS_TOKEN_STORAGE_KEY
    [] OTHER -> REFRESH_TOKEN_STORAGE_KEY
CallbackOf(slot) ==
  CASE slot = "idToken" -> "idTokenCb"
    [] slot = "accessToken" -> "accessTokenCb"
    [] OTHER -> "refreshTokenCb"
\* the key setTokens assigns to a kind, given the storage it found
AssignedKey(st, slot) ==
  IF \E i \in 1..Len(st) : getTokens(<<st[i]>>)[slot].obj
  THEN st[MinOf({i \in 1..Len(st) : getTokens(<<st[i]>>)[slot].obj})].key
  ELSE DefaultKey(slot)
\* the token of the kind the storage held
StoredOfKind(st, slot) == getTokens(st)[slot]

EventsWhere(type, key) ==
  {i \in 1..Len(events) : events[i].type = type /\ events[i].key = key}
CallsWhere(cb, key) ==
  {i \in 1..Len(result.calls) : result.calls[i].cb = cb /\ result.calls[i].key = key}
LiveTimers(key) == {t \in timers : t.key = key}

\* the last operation was a setTokens that returned
SetTokensDone == result.op = "setTokens" /\ result.thrown = ""

\* C5: when a kind that has a token in storage is missing from the bag,
\* setTokens emits exactly one 'removed' event for the kind's key, carrying
\* the token that was stored, cancels the key's timer and calls the kind's
\* callback
C5_SetTokensEmitsRemoved ==
  SetTokensDone =>
    \A slot \in Slots :
      (StoredOfKind(prev, slot).obj /\ ~result.bag[slot].obj) =>
        LET key == AssignedKey(prev, slot)
        IN /\ Cardinality(EventsWhere(EVENT_REMOVED, key)) = 1
           /\ \A i \in EventsWhere(EVENT_REMOVED, key) :
                events[i].token = StoredOfKind(prev, slot)
           /\ LiveTimers(key) = {}
           /\ CallsWhere(CallbackOf(slot), key) # {}

\* a kind of the bag whose token is the one the storage held
Unchanged(slot) ==
  result.bag[slot].obj /\ result.bag[slot] = StoredOfKind(prev, slot)

\* C6 as stated: setTokens emits no event for a kind whose token is the
\* one already stored
C6_NoEventWhenIdentical ==
  SetTokensDone =>
    \A slot \in Slots :
      Unchanged(slot) =>
        \A i \in 1..Len(events) : events[i].key # AssignedKey(prev, slot)

\* C6 amended: for a kind whose token is the one already stored, setTokens
\* emits exactly one 'added' event carrying the token under the kind's key,
\* and no 'removed' event for that key
C6_AddedWhenIdentical ==
  SetTokensDone =>
    \A slot \in Slots :
      Unchanged(slot) =>
        LET key == AssignedKey(prev, slot)
        IN /\ Cardinality({i \in EventsWhere(EVENT_ADDED, key) :
                             events[i].token = result.bag[slot]}) = 1
           /\ EventsWhere(EVENT_REMOVED, key) = {}

C6_Witness ==
  /\ SetTokensDone
  /\ \E slot \in Slots : Unchanged(slot)
  /\ \E slot \in Slots : result.bag[slot].obj /\ ~Unchanged(slot)

\* C7: a setTokens that returned wrote the storage once, and the storage
\* holds exactly the tokens of the bag, each under the key that held a
\* token of its kind or else under the default key of the kind
C7_SetTokensStoresBag ==
  SetTokensDone =>
    /\ result.writes = 1
    /\ \A slot \in Slots :
         result.bag[slot].obj =>
           StGet(storage, AssignedKey(prev, slot)) = result.bag[slot]
    /\ StKeys(storage) =
         {AssignedKey(prev, slot) : slot \in {x \in Slots : result.bag[x].obj}}

----------------------------------------------------------------------------
(* Properties of the timers, of add and of the storage listener, in the    *)
(* manager's life.                                                         *)

\* C3: there is at most one live expiry timer for a storage key, and it is
\* the one the key's handle names
C3_OneTimerPerKey ==
  \A key \in Keys :
    /\ Cardinality(LiveTimers(key)) <= 1
    /\ \A t \in LiveTimers(key) :
         key \in DOMAIN expireTimeouts /\ expireTimeouts[key] = t.id

\* a timer was scheduled for a key whose earlier timer was still live
C3_Witness ==
  /\ result.op \in {"add", "setTokens", "renewSettled", "crossTab"}
  /\ result.cancels >= 1
  /\ \E key \in Keys : Cardinality(LiveTimers(key)) = 1

\* C8: add with a token that is no object, has no scopes, has no expiresAt
\* or is of no kind throws the AuthSdkError, writes nothing, emits nothing
\* and leaves the timers and the renewal memos alone; a token whose
\* expiresAt is 0 is not rejected for it
C8_AddInvalidChangesNothing ==
  [][ (result'.op = "add" /\ result'.token \in InvalidTokens =>
         /\ result'.thrown = "AuthSdkError"
         /\ result'.writes = 0
         /\ result'.cancels = 0
         /\ events' = <<>>
         /\ UNCHANGED <<storage, timers, expireTimeouts, renewPromise>>)
      /\ (result'.op = "add" /\ result'.token = Tok("access", 0) =>
            result'.thrown = "") ]_vars

\* add threw while the key had a renewal memo
C8_Witness ==
  /\ result.op = "add"
  /\ result.token \in InvalidTokens
  /\ result.thrown = "AuthSdkError"
  /\ result.key \in DOMAIN renewPromise

\* a notification C10 takes to be ignored: its key is not the storage key
\* (the null key of localStorage.clear included) or its values are equal
Ignored(e) == e[1] # StorageKey \/ e[2] = e[3]
\* the same, for a notification whose key is neither null nor empty
IgnoredWithKey(e) == truthyKey(e[1]) /\ Ignored(e)
\* the notification whose handler is the next to run
Handled == <<Head(crossTab).key, Head(crossTab).newValue, Head(crossTab).oldValue>>

\* C10 as stated: a notification with equal values or with a key that is
\* not the storage key, the null key included, emits nothing and cancels or
\* creates no timer, neither when it arrives nor in a handler run for it
C10_IgnoredNotificationChangesNothing ==
  [][ /\ (result'.op = "storageEvent" /\ Ignored(result'.event)) =>
           (events' = <<>> /\ UNCHANGED <<timers, expireTimeouts>>)
      /\ (result'.op = "crossTab" /\ crossTab # <<>> /\ Ignored(Handled)) =>
           (events' = <<>> /\ result'.cancels = 0 /\ timers' = timers) ]_vars

\* C10 amended: a notification whose key is neither null nor the empty
\* string, and whose key is not the storage key or whose values are equal,
\* schedules no handler, emits nothing and leaves the timers alone, and no
\* handler runs for it
C10_IgnoredWithKeyChangesNothing ==
  [][ /\ (result'.op = "storageEvent" /\ IgnoredWithKey(result'.event)) =>
           /\ crossTab' = crossTab
           /\ events' = <<>>
           /\ UNCHANGED <<timers, expireTimeouts, renewPromise>>
      /\ (result'.op = "crossTab" /\ crossTab # <<>>) =>
           ~IgnoredWithKey(Handled) ]_vars

\* a notification with a key was ignored while a timer was live
C10_Witness ==
  /\ result.op = "storageEvent"
  /\ IgnoredWithKey(result.event)
  /\ result.event[2] = result.event[3]
  /\ timers # {}
  /\ crossTab = <<>>

----------------------------------------------------------------------------
(* Renewal: the application and the expired handler renew the access       *)
(* token while add and remove touch its key; one request more than in the  *)
(* manager's life may be outstanding.                                      *)

\* an access token that has expired at now = 0, and one that expires at now = 1
RenewTokens == {Tok("access", 0), Tok("access", ExpireEarlySeconds + 1)}
RenewStorages ==
  {<<>>} \cup {<<Entry(ACCESS_TOKEN_STORAGE_KEY, t)>> : t \in RenewTokens}

\* the storage found at construction may also hold a token without
\* expiresAt
InitRenew ==
  \E st \in RenewStorages \cup {<<Entry(ACCESS_TOKEN_STORAGE_KEY, NoExpiry)>>} :
    InitWith(st, DefaultOptions)

NextRenew ==
  \/ Add(Entries(LifeKeys, RenewTokens \cup InvalidTokens)) /\ NoHistory
  \/ Remove(LifeKeys) /\ NoHistory
  \/ Renew(LifeKeys, MaxRequests + 1) /\ NoHistory
  \/ RenewSucceed(RenewTokens) /\ NoHistory
  \/ RenewFail /\ NoHistory
  \/ RenewFinally /\ NoHistory

SpecRenew == InitRenew /\ [][NextRenew]_vars

\* the requests outstanding for a key
RequestsOf(key) == {r \in requests : r.key = key}

\* a renewal of the key is in flight and nothing has touched the key since:
\* the key has its token and the memo is the promise of the request
InFlight(key) ==
  /\ StGet(storage, key).obj
  /\ key \in DOMAIN renewPromise
  /\ \E r \in RequestsOf(key) : r.promise = renewPromise[key]

\* C1: renew(key), called while a renewal of the key is in flight and
\* nothing has touched the key since, returns the promise of that renewal
\* and issues no request
C1_SecondRenewReturnsMemo ==
  [][ \A key \in Keys :
        (InFlight(key) /\ result'.op = "renew" /\ result'.key = key) =>
          /\ result'.promise = renewPromise[key]
          /\ result'.thrown = ""
          /\ requests' = requests ]_vars

\* renew returned the memoized promise of the one request in flight
C1_Witness ==
  /\ result.op = "renew"
  /\ result.memo
  /\ InFlight(result.key)
  /\ result.promise = renewPromise[result.key]
  /\ Cardinality(RequestsOf(result.key)) = 1

\* C2: at most one renewal request is outstanding (not yet answered by the
\* transport) for a storage key
C2_OneRequestPerKey ==
  \A key \in Keys :
    Cardinality({r \in RequestsOf(key) : r.stage = "request"}) <= 1

----------------------------------------------------------------------------
(* Expiry: tokens that expire around the clock's value are added while     *)
(* the clock advances.                                                     *)

\* the last second of the clock in the expiry scenario
MaxClock == 3
ExpiryTokens ==
  {Tok("access", e) : e \in (ExpireEarlySeconds - 1)..(ExpireEarlySeconds + MaxClock + 1)}

\* the storage found at construction: empty, or with a token that carries no
\* expiresAt (what is read from storage is not validated)
ExpiryStorages == {<<>>, <<Entry(ACCESS_TOKEN_STORAGE_KEY, NoExpiry)>>}

InitExpiry == \E st \in ExpiryStorages : InitWith(st, DefaultOptions)

NextExpiry ==
  \/ Add(Entries(LifeKeys, ExpiryTokens)) /\ NoHistory
  \/ Remove(LifeKeys) /\ NoHistory
  \/ HasExpired(ExpiryTokens \cup {NoExpiry}) /\ NoHistory
  \/ ResetExpireEventTimeoutAll /\ NoHistory
  \/ Tick(1, MaxClock) /\ NoHistory

SpecExpiry == InitExpiry /\ [][NextExpiry]_vars

\* expiresAt - expireEarlySeconds <= now, of a token that carries expiresAt
ExpireTimeReached(token) == token.expiresAt <= now + ExpireEarlySeconds

\* hasExpired returned, for a token that carries expiresAt, whether its
\* expire time has been reached, and for a token without one, false
HasExpiredAnswers ==
  result.op = "hasExpired" =>
    /\ result.token.expiresAt # NoExpiresAt =>
         /\ result.value <=> ExpireTimeReached(result.token)
         /\ result.token.expiresAt = now + ExpireEarlySeconds - 1 => result.value
         /\ result.token.expiresAt = now + ExpireEarlySeconds + 1 => ~result.value
    /\ result.token.expiresAt = NoExpiresAt => ~result.value

\* the timers set at this second
TimersSetNow == {t \in timers : t.setAt = now}

\* C9 as stated: hasExpired(token) is true exactly when expiresAt -
\* expireEarlySeconds <= now (in JavaScript's arithmetic, where the
\* comparison is false of a missing expiresAt), and the timer scheduled for
\* any token has delay 0 exactly when hasExpired holds of the token
C9_DelayZeroExactlyWhenExpired ==
  /\ HasExpiredAnswers
  /\ \A t \in TimersSetNow : t.wait = 0 <=> hasExpired(t.token)

\* C9: for a token that carries expiresAt, hasExpired(token) is true
\* exactly when expiresAt - expireEarlySeconds <= now, so that expiresAt =
\* now + expireEarlySeconds - 1 is expired and expiresAt = now +
\* expireEarlySeconds + 1 is not, and its timer is scheduled with delay 0
\* exactly when hasExpired holds of it; for a token without expiresAt
\* hasExpired is false, and its timer is scheduled to fire at once
C9_ExpiredAtExpireTime ==
  /\ HasExpiredAnswers
  /\ \A t \in TimersSetNow :
       IF t.token.expiresAt # NoExpiresAt
       THEN t.wait = 0 <=> ExpireTimeReached(t.token)
       ELSE t.wait = 0 /\ ~hasExpired(t.token)

\* hasExpired was asked of a token at the very second of its expire time,
\* after the token was added in that second
C9_Witness ==
  /\ result.op = "hasExpired"
  /\ now >= 1
  /\ result.token.expiresAt = now + ExpireEarlySeconds
  /\ result.value
  /\ \E t \in TimersSetNow : t.token = result.token /\ t.wait = 0

----------------------------------------------------------------------------
(* Throttling: the access token, expired when it is added, is added again *)
(* and again, and the expired handler renews it while the transport stays  *)
(* silent; the history `attempts' has one record for each run of the       *)
(* handler.                                                                *)

\* the clock's values: the start, and the seconds around the window's end
ThrottleTimes ==
  {0, ThrottleWindowMs \div 1000 - 1, ThrottleWindowMs \div 1000,
   ThrottleWindowMs \div 1000 + 1}
ThrottleTokens == {Tok("access", 0)}

\* the handler ran: at what time, whether the 'error' event was emitted and
\* whether renew was called
RecordAttempt ==
  /\ attempts' = Append(attempts,
       [ time |-> now,
         error |-> \E i \in 1..Len(events') : events'[i].type = EVENT_ERROR,
         renewed |-> \E i \in 1..Len(result'.calls) : result'.calls[i].cb = "renew" ])
  /\ UNCHANGED prev
  /\ UNCHANGED idxVars
  /\ UNCHANGED call

InitThrottle ==
  InitWith(<<Entry(ACCESS_TOKEN_STORAGE_KEY, Tok("access", 0))>>, DefaultOptions)

NextThrottle ==
  \/ Add(Entries(LifeKeys, ThrottleTokens)) /\ NoHistory
  \/ /\ Len(attempts) < MaxAttempts
     /\ TimerFire(MaxAttempts, ThrottleLength)
     /\ RecordAttempt
  \/ \E t \in ThrottleTimes : t > now /\ Tick(t - now, t) /\ NoHistory

SpecThrottle == InitThrottle /\ [][NextThrottle]_vars

\* C4: the n-th run of the expired handler emits the 'error' event and does
\* not call renew exactly when n >= 10 and less than 30 seconds lie between
\* the runs n-9 and n; every other run calls renew and emits no error
C4_ThrottledExactlyInWindow ==
  \A n \in 1..Len(attempts) :
    /\ attempts[n].error <=> (n >= 10 /\ attempts[n].time - attempts[n - 9].time < 30)
    /\ attempts[n].renewed <=> ~attempts[n].error

\* the tenth run was throttled at second 29 and the eleventh, 30 seconds
\* after the second, was not
C4_Witness ==
  /\ Len(attempts) >= 11
  /\ attempts[9].time = 0
  /\ attempts[10].time = 29 /\ attempts[10].error
  /\ attempts[11].time - attempts[2].time = 30 /\ attempts[11].renewed

----------------------------------------------------------------------------
(* Other tabs: another document adds and deletes the id token and access   *)
(* tokens; the storage listener and its handler run, and the manager's     *)
(* _emitEventsForCrossTabsStorageUpdate is called with every pair of       *)
(* serialized values.                                                      *)

TabPuts ==
  {Entry(ID_TOKEN_STORAGE_KEY, Tok("id", ExpireEarlySeconds + 1))}
    \cup Entries({ACCESS_TOKEN_STORAGE_KEY},
                 {Tok("access", 0), Tok("access", ExpireEarlySeconds + 1)})
\* the token storages over TabPuts, the id token first
TabStorages ==
  {<<>>} \cup {<<e>> : e \in TabPuts}
    \cup {<<p[1], p[2]>> : p \in {q \in TabPuts \X TabPuts :
                                    /\ q[1].key = ID_TOKEN_STORAGE_KEY
                                    /\ q[2].key = ACCESS_TOKEN_STORAGE_KEY}}
\* the serialized values: null, no JSON, and the JSON of a token storage
TabValues == {NullValue, GarbageValue} \cup {JsonValue(st) : st \in TabStorages}

InitTabs == InitWith(<<>>, DefaultOptions)

NextTabs ==
  \/ StorageEvent(TabPuts) /\ NoHistory
  \/ CrossTabChange /\ NoHistory
  \/ EmitEventsForCrossTabs(TabValues) /\ NoHistory

SpecTabs == InitTabs /\ [][NextTabs]_vars

\* the token set of a serialized value: the empty set for null and for a
\* value that is no JSON
TokenSetOf(value) == IF value.kind = "json" THEN value.tokens ELSE <<>>
\* the <<key, token>> pairs the events of one type carry, and their number
EventPairs(type) ==
  {<<events[i].key, events[i].token>> :
     i \in {j \in 1..Len(events) : events[j].type = type}}
EventCount(type) == Cardinality({j \in 1..Len(events) : events[j].type = type})
\* the last operation emitted the events of a change from old to new
CrossTabsEmitted ==
  result.op \in {"crossTab", "emitCrossTabs"}

\* the <<key, token>> pairs that are added by, and removed by, a change of
\* the serialized value from old to new
AddedBy(new, old) ==
  {<<e.key, e.token>> :
     e \in {new[i] : i \in {j \in 1..Len(new) : StGet(old, new[j].key) # new[j].token}}}
RemovedBy(new, old) ==
  {<<e.key, e.token>> :
     e \in {old[i] : i \in {j \in 1..Len(old) : old[j].key \notin StKeys(new)}}}

\* C11 as stated: for the serialized values new and old, the events are
\* exactly one 'added' with the new token for every key of the new set whose
\* token is not the old set's token under the key, and one 'removed' with
\* the old token for every key of the old set that the new set lacks; a key
\* with the same token in both gets no event, no key gets both events, and
\* null or a value that is no JSON counts as the empty set
C11_CrossTabEventsAreTheDifference ==
  CrossTabsEmitted =>
    LET added == AddedBy(TokenSetOf(result.event[2]), TokenSetOf(result.event[3]))
        removed == RemovedBy(TokenSetOf(result.event[2]), TokenSetOf(result.event[3]))
    IN /\ EventPairs(EVENT_ADDED) = added
       /\ EventPairs(EVENT_REMOVED) = removed
       /\ EventCount(EVENT_ADDED) = Cardinality(added)
       /\ EventCount(EVENT_REMOVED) = Cardinality(removed)
       /\ Len(events) = Cardinality(added) + Cardinality(removed)
       /\ {p[1] : p \in added} \cap {p[1] : p \in removed} = {}

\* C11: the 'added' and 'removed' events are exactly those of the difference,
\* as above; the only other event of an accepted notification is one 'error'
\* event, emitted before them, when the token storage could not be read to
\* set the timers again
C11_CrossTabEventsAfterTheReset ==
  CrossTabsEmitted =>
    LET added == AddedBy(TokenSetOf(result.event[2]), TokenSetOf(result.event[3]))
        removed == RemovedBy(TokenSetOf(result.event[2]), TokenSetOf(result.event[3]))
        errors == EventCount(EVENT_ERROR)
    IN /\ EventPairs(EVENT_ADDED) = added
       /\ EventPairs(EVENT_REMOVED) = removed
       /\ EventCount(EVENT_ADDED) = Cardinality(added)
       /\ EventCount(EVENT_REMOVED) = Cardinality(removed)
       /\ Len(events) = errors + Cardinality(added) + Cardinality(removed)
       /\ {p[1] : p \in added} \cap {p[1] : p \in removed} = {}
       /\ errors <= 1
       /\ errors = 1 => /\ events[1].type = EVENT_ERROR
                         /\ events[1].err = "AuthSdkError"
                         /\ result.op = "crossTab"
                         /\ timers = {}

\* the access token changed and the id token was deleted: one 'added' and
\* one 'removed'
C11_Witness ==
  /\ result.op = "emitCrossTabs"
  /\ result.event[2] = JsonValue(<<Entry(ACCESS_TOKEN_STORAGE_KEY, Tok("access", 0))>>)
  /\ result.event[3].kind = "json"
  /\ Len(result.event[3].tokens) = 2
  /\ EventCount(EVENT_ADDED) = 1
  /\ EventCount(EVENT_REMOVED) = 1

----------------------------------------------------------------------------
(* Properties of a failed renewal, in the renewal scenario.                *)

AuthorizationErrors == {"OAuthError", "AuthSdkError"}

\* C12: when the request of renew(key) fails with an OAuthError or an
\* AuthSdkError, the token stored under the key is deleted if it has
\* expired and the storage is left alone otherwise; one 'removed' event
\* for the key is emitted, then one 'error' event with the error and its
\* tokenKey = key, and the promise of the request rejects with the error
\* (when the finally callback has run, which changes neither the storage nor
\* emits an event)
C12_AuthorizationFailureOfRenew ==
  [][ /\ (result'.op = "renewFailed" /\ result'.thrown \in AuthorizationErrors) =>
          LET key == result'.key
              current == StGet(storage, key)
          IN /\ IF /\ current.obj
                   /\ current.expiresAt # NoExpiresAt
                   /\ current.expiresAt - ExpireEarlySeconds <= now
                THEN storage' = StDelete(storage, key) /\ events'[1].token = current
                ELSE storage' = storage /\ result'.writes = 0
             /\ Len(events') = 2
             /\ events'[1].type = EVENT_REMOVED /\ events'[1].key = key
             /\ events'[2].type = EVENT_ERROR
             /\ events'[2].err = result'.thrown /\ events'[2].key = key
             /\ \E r \in requests :
                  /\ r.key = key /\ r.promise = result'.promise
                  /\ requests' = (requests \ {r})
                                   \cup {[r EXCEPT !.stage = "finally",
                                                   !.err = result'.thrown]}
      /\ result'.op = "renewFinally" =>
          /\ storage' = storage
          /\ events' = <<>>
          /\ \E r \in requests :
               /\ r.stage = "finally" /\ r.promise = result'.promise
               /\ result'.thrown = r.err
               /\ requests' = requests \ {r} ]_vars

\* a renewal failed with an OAuthError while the stored token, which has no
\* expiresAt, was not expired: the storage still holds it, and the promise
\* has rejected
C12_Witness ==
  /\ result.op = "renewFinally"
  /\ result.thrown = "OAuthError"
  /\ StGet(storage, result.key) = NoExpiry
  /\ result.key \notin DOMAIN renewPromise

----------------------------------------------------------------------------
(* Automatic renewal: the application adds access tokens and never calls   *)
(* renew, so that every renewal is one the expired handler started.        *)

InitAuto == \E st \in RenewStorages : InitWith(st, DefaultOptions)

NextAuto ==
  \/ Add(Entries(LifeKeys, RenewTokens)) /\ NoHistory
  \/ TimerFire(MaxRequests + 1, MaxQueue) /\ NoHistory
  \/ RenewSucceed(RenewTokens) /\ NoHistory
  \/ RenewFail /\ NoHistory
  \/ RenewFinally /\ NoHistory
  \/ Tick(1, Horizon(RenewTokens)) /\ NoHistory

SpecAuto == InitAuto /\ [][NextAuto]_vars

\* C13: whenever a renewal that the expired handler started fails, whatever
\* the failure of the request, an 'error' event is emitted
C13_FailedAutoRenewEmitsError ==
  result.op = "renewFailed" =>
    \E i \in 1..Len(events) : events[i].type = EVENT_ERROR

----------------------------------------------------------------------------
(* The idx transaction as a state machine: run, proceed and                *)
(* getFlowSpecification are called against the transaction manager's      *)
(* store, with every answer of their collaborators.                        *)

\* the monitors that the state refers to
MonitorsInUse ==
  {transaction.options.flowMonitor.id}
    \cup {r.options.flowMonitor.id : r \in BagToSet(runs)}

\* the monitor `new' constructs: the first identity that the state does not
\* refer to
FreshMonitor ==
  CHOOSE i \in 1..(MaxRuns + 2) :
    i \notin MonitorsInUse /\ \A j \in 1..(i - 1) : j \in MonitorsInUse

\* what the call that run awaits at `pc' answers, of all that the outcome
\* says; at the call of run itself, the calls that answer at once
Answer(pc, w) ==
  LET fails == IF pc = "call" THEN {"setFlow", "getSavedTransactionMeta"} ELSE {pc}
      failed == w.fail \in fails
  IN [ fail |-> IF failed THEN w.fail ELSE NoError,
       idxResponse |-> IF pc = "introspect" /\ ~failed
                       THEN w.idxResponse ELSE NoIdxResponse,
       remediated |-> IF pc = "remediate" /\ ~failed
                      THEN w.remediated ELSE NoRemediated,
       finished |-> pc = "isFinished" /\ ~failed /\ w.finished ]

\* the answers that an invocation has had, with the one to the call at `pc'
Answered(outcome, pc, a, f) ==
  [ fail |-> IF f.thrown \in FailingCalls THEN f.thrown ELSE outcome.fail,
    idxResponse |-> IF pc = "introspect" THEN a.idxResponse ELSE outcome.idxResponse,
    remediated |-> IF pc = "remediate" THEN a.remediated ELSE outcome.remediated,
    finished |-> IF pc = "isFinished" THEN a.finished ELSE outcome.finished ]

\* an invocation of run or proceed: what it was given, the store it saw at
\* the call, the answers it has had so far, its promise and its locals
Invocation(op, given, saw, a, r) ==
  [ op |-> op, given |-> given, saw |-> saw,
    outcome |-> Answered(NoOutcome, "call", a, r.f),
    rejected |-> r.rejected, f |-> r.f, options |-> r.options ]

\* the invocation that has returned, and the store it left
Transaction(inv) ==
  [ op |-> inv.op, given |-> inv.given, outcome |-> inv.outcome,
    rejected |-> inv.rejected, returned |-> Returned(inv.f),
    calls |-> inv.f.calls, options |-> inv.options,
    introspected |-> inv.f.introspected, saw |-> inv.saw,
    left |-> inv.f.store ]

\* the invocation gives control back: it has returned, or it is suspended at
\* an await among the others; its writes to the transaction store are made
Yield(inv, others) ==
  /\ transactionMeta' = inv.f.store
  /\ IF Suspended(inv.f)
     THEN /\ runs' = others (+) SetToBag({[inv EXCEPT !.f.store = NoStore]})
          /\ UNCHANGED transaction
     ELSE /\ runs' = others
          /\ transaction' = Transaction(inv)
  /\ UNCHANGED managerVars
  /\ UNCHANGED call

\* run(authClient, options), called by the application; limit: the most
\* invocations suspended at a time
Run(optionSet, outcomes, limit) ==
  \E o \in optionSet, a \in {Answer("call", w) : w \in outcomes} :
    LET inv == Invocation("run", o.flow, transactionMeta, a,
                          run(transactionMeta, o, a))
    IN /\ Suspended(inv.f) => BagCardinality(runs) < limit
       /\ Yield(inv, runs)

\* proceed(authClient, options), called by the application
Proceed(outcomes, limit) ==
  \E a \in {Answer("call", w) : w \in outcomes} :
    LET inv == Invocation("proceed", NoFlow, transactionMeta, a,
                          proceed(transactionMeta, FreshMonitor, a))
    IN /\ Suspended(inv.f) => BagCardinality(runs) < limit
       /\ Yield(inv, runs)

\* the call that a suspended invocation awaits answers, and the invocation
\* goes on to its next await or to its return
Resume(outcomes) ==
  \E inv \in BagToSet(runs) :
    \E a \in {Answer(inv.f.pc, w) : w \in outcomes} :
      LET r == resumeRun(inv, transactionMeta, a)
      IN Yield([r EXCEPT !.outcome = Answered(inv.outcome, inv.f.pc, a, r.f)],
               runs (-) SetToBag({inv}))

\* getFlowSpecification(oktaAuth, flow), called by the application
GetFlowSpecification(flows) ==
  \E flow \in flows :
    /\ transaction' =
         [NoTransaction EXCEPT !.op = "getFlowSpecification", !.given = flow,
                               !.options = getFlowSpecification(FreshMonitor, flow)]
    /\ UNCHANGED <<transactionMeta, runs>>
    /\ UNCHANGED managerVars
    /\ UNCHANGED call

\* the flow identifiers, and one that is none of them
FlowIdentifiers ==
  {"default", "proceed", "authenticate", "login", "signin", "register",
   "signup", "enrollProfile", "recoverPassword", "resetPassword", "unknown"}

\* the flows of the saved transactions
SavedFlows == {NoFlow, "recoverPassword"}

\* the stores at the start: nothing saved, or a transaction, with or without
\* its interaction handle, that the shared storage holds too
IdxStores ==
  {NoStore} \cup {Store(Meta(handle, flow), FALSE, TRUE) :
                    handle \in BOOLEAN, flow \in SavedFlows}

\* the remediations of a response: up to two of these names, in any order
StepNames == {"select-enroll-profile", "redirect-idp"}
NeededToProceed ==
  {<<>>} \cup {<<a>> : a \in StepNames}
         \cup {<<p[1], p[2]>> : p \in {q \in StepNames \X StepNames : q[1] # q[2]}}
IdxResponses == [neededToProceed : NeededToProceed, recover : BOOLEAN]

\* what remediate answers: the interaction code is a field of the response,
\* and the messages come with a terminal response
Remediations ==
  {r \in [terminal : BOOLEAN, canceled : BOOLEAN, interactionCode : BOOLEAN,
          nextStep : BOOLEAN, idxResponse : BOOLEAN, messages : BOOLEAN] :
     /\ r.messages = r.terminal
     /\ r.interactionCode => r.idxResponse}

\* the answers to a run that starts a transaction, and to one that remediates
StartOutcomes ==
  [fail : {NoError, "setFlow", "getSavedTransactionMeta", "interact", "introspect"},
   idxResponse : IdxResponses, remediated : {NoRemediated}, finished : {FALSE}]
\* the calls after remediate
CallsOnCode == {"isFinished", "exchangeCodeForTokens"}

\* remediate has an answer where no call before it, nor itself, fails; the
\* monitor has one where there is an interaction code to ask about
RemediateOutcomes ==
  {w \in [fail : {NoError} \cup FailingCalls, idxResponse : {NoIdxResponse},
          remediated : Remediations, finished : BOOLEAN] :
     /\ w.fail \in FailingCalls \ CallsOnCode => w.remediated = NoRemediated
     /\ w.finished => w.remediated.interactionCode}

\* the options of a run that starts a transaction, and of one that remediates:
\* a flow specification, or an action whitelist without a monitor
StartOptions ==
  {FlowSpecification(flow, NoRemediators, NoMonitor, FALSE, <<>>, TRUE) :
     flow \in {NoFlow, "register"}}
RemediateOptions ==
  {FlowSpecification(NoFlow, NoRemediators, NoMonitor, TRUE, RecoverActions, TRUE)}

InitIdx ==
  /\ InitManager(<<>>, DefaultOptions, "")
  /\ transactionMeta \in IdxStores
  /\ transaction = NoTransaction
  /\ runs = EmptyBag
  /\ call = NoCall

\* transactions are remediated, by run and through proceed
NextIdx ==
  \/ Run(RemediateOptions, RemediateOutcomes, MaxAwaited)
  \/ Proceed(RemediateOutcomes, MaxAwaited)
  \/ Resume(RemediateOutcomes)

SpecIdx == InitIdx /\ [][NextIdx]_vars

\* transactions are started, and flow specifications selected
NextStart ==
  \/ Run(StartOptions, StartOutcomes, MaxAwaited)
  \/ Resume(StartOutcomes)
  \/ GetFlowSpecification(FlowIdentifiers \cup {NoFlow})

SpecStart == InitIdx /\ [][NextStart]_vars

\* the answers to the invocations that overlap: remediate may fail, answer
\* with a next step, report that the transaction is canceled or terminal, or
\* answer with an interaction code that the monitor takes as the end
OverlapRemediations ==
  {r \in Remediations :
     \/ r = [NoRemediated EXCEPT !.nextStep = TRUE, !.idxResponse = TRUE]
     \/ r = [NoRemediated EXCEPT !.canceled = TRUE]
     \/ r = [NoRemediated EXCEPT !.terminal = TRUE, !.messages = TRUE]
     \/ r = [NoRemediated EXCEPT !.interactionCode = TRUE, !.idxResponse = TRUE]}
OverlapOutcomes ==
  {w \in RemediateOutcomes :
     /\ w.fail \in {NoError, "remediate"}
     /\ w.fail = NoError => w.remediated \in OverlapRemediations
     /\ w.finished = w.remediated.interactionCode}

\* the options of the invocations that overlap: none, and an action
\* whitelist with the monitor of the application
OverlapOptions ==
  {o \in StartOptions : o.flow = NoFlow}
    \cup {FlowSpecification(NoFlow, NoRemediators,
            FlowMonitor("AuthenticationFlowMonitor", 1), TRUE, RecoverActions, TRUE)}

\* the application does not await: transactions are started and remediated by
\* invocations of run that overlap, up to MaxRuns of them suspended at a time
NextOverlap ==
  \/ Run(OverlapOptions, OverlapOutcomes, MaxRuns)
  \/ Resume(OverlapOutcomes)

\* the invocations that overlap start with nothing saved
InitOverlap ==
  /\ InitManager(<<>>, DefaultOptions, "")
  /\ transactionMeta = NoStore
  /\ transaction = NoTransaction
  /\ runs = EmptyBag
  /\ call = NoCall

SpecOverlap == InitOverlap /\ [][NextOverlap]_vars

\* the calls of the last idx operation that are `name'
IdxCalls(name) ==
  {i \in 1..Len(transaction.calls) : transaction.calls[i] = name}

\* the last idx operation is a run, directly or through proceed
RunDone == transaction.op \in {"run", "proceed"} /\ transaction.rejected = NoError

\* C14: in any run, exchangeCodeForTokens is called only after isFinished
\* has resolved true in the same run; and when remediate yields an
\* interaction code (not canceled, not terminal) and isFinished resolves
\* false or fails, the result is a FAILURE with an error and no tokens, and
\* no token exchange is called
C14_ExchangeOnlyWhenFinished ==
  RunDone =>
    /\ \A x \in IdxCalls("exchangeCodeForTokens") :
         /\ \E m \in IdxCalls("isFinished") : m < x
         /\ transaction.outcome.finished
         /\ transaction.outcome.fail # "isFinished"
    /\ ( /\ IdxCalls("remediate") # {}
         /\ transaction.outcome.fail \notin FailingCalls \ CallsOnCode
         /\ transaction.outcome.remediated.idxResponse
         /\ transaction.outcome.remediated.interactionCode
         /\ ~transaction.outcome.remediated.canceled
         /\ (~transaction.outcome.finished \/ transaction.outcome.fail = "isFinished")
         => /\ transaction.returned.status = "FAILURE"
            /\ "error" \in transaction.returned.has
            /\ transaction.returned.error # NoError
            /\ "tokens" \notin transaction.returned.has
            /\ IdxCalls("exchangeCodeForTokens") = {} )

\* a run whose remediation yielded an interaction code and whose monitor
\* resolved false has returned
C14_Witness ==
  /\ RunDone
  /\ IdxCalls("isFinished") # {}
  /\ transaction.outcome.fail = NoError
  /\ transaction.outcome.remediated.interactionCode
  /\ ~transaction.outcome.finished
  /\ transaction.returned.status = "FAILURE"

\* the sequence has the element
InSeq(x, seq) == \E i \in 1..Len(seq) : seq[i] = x

\* C15: a run with no saved transaction meta and with neither remediators
\* nor actions, none of whose calls fails, clears the persisted meta, calls
\* interact and then introspect once each, calls neither remediate nor the
\* token exchange, and returns PENDING with meta, availableSteps and
\* enabledFeatures, where enabledFeatures has REGISTRATION exactly when
\* neededToProceed has a step named 'select-enroll-profile'
C15_FreshStartIsPending ==
  [][ ( /\ transaction'.op = "run"
        /\ ~transaction'.saw.meta.saved
        /\ transaction'.options.remediators = NoRemediators
        /\ ~transaction'.options.hasActions
        /\ transaction'.outcome.fail = NoError )
      => /\ transaction'.calls =
              (IF transaction'.options.flow # NoFlow THEN <<"setFlow">> ELSE <<>>)
                \o <<"getSavedTransactionMeta", "clear", "interact", "introspect">>
         /\ transaction'.returned.status = "PENDING"
         /\ {"meta", "availableSteps", "enabledFeatures"} \subseteq transaction'.returned.has
         /\ transaction'.returned.meta.saved
         /\ InSeq("REGISTRATION", transaction'.returned.enabledFeatures)
              <=> InSeq("select-enroll-profile",
                        transaction'.outcome.idxResponse.neededToProceed)
    ]_vars

\* a fresh run of the 'register' flow has returned PENDING with REGISTRATION
\* enabled by a step that is not the first of the response
C15_Witness ==
  /\ transaction.op = "run"
  /\ transaction.given = "register"
  /\ transaction.calls = <<"setFlow", "getSavedTransactionMeta", "clear", "interact", "introspect">>
  /\ transaction.returned.status = "PENDING"
  /\ transaction.outcome.idxResponse.neededToProceed = <<"redirect-idp", "select-enroll-profile">>
  /\ InSeq("REGISTRATION", transaction.returned.enabledFeatures)

\* the statuses of a transaction that has ended
FinalStatuses == {"SUCCESS", "FAILURE", "TERMINAL", "CANCELED"}

\* the calls that go to the server: the transport
TransportCalls == {"interact", "introspect", "remediate", "exchangeCodeForTokens"}

\* C16: proceed, when no transaction meta is saved (exactly when canProceed
\* is false), rejects with an AuthSdkError, calls none of interact,
\* introspect, remediate and the token exchange, and leaves the persisted
\* meta as it is; when canProceed is true it is run with the flow
\* specification of the saved meta's flow identifier (when the lookup of the
\* saved meta throws, canProceed is neither: proceed rejects with the error
\* of the lookup, calls nothing else and leaves the persisted meta as it is)
C16_ProceedNeedsSavedMeta ==
  [][ transaction'.op = "proceed" =>
        LET t == transaction'
        IN IF t.outcome.fail = "getSavedTransactionMeta"
           THEN /\ t.rejected = "getSavedTransactionMeta"
                /\ t.calls = <<"getSavedTransactionMeta">>
                /\ t.left = t.saw
           ELSE IF ~canProceed(t.saw)
           THEN /\ ~t.saw.meta.saved
                /\ t.rejected = "AuthSdkError"
                /\ \A i \in 1..Len(t.calls) : t.calls[i] \notin TransportCalls
                /\ t.left = t.saw
           ELSE /\ t.saw.meta.saved
                /\ t.rejected = NoError
                /\ t.options =
                     getFlowSpecification(t.options.flowMonitor.id, t.saw.meta.flow)
                /\ t.options.flow =
                     IF t.saw.meta.flow = NoFlow THEN "proceed" ELSE t.saw.meta.flow
                /\ SubSeq(t.calls, 1, 2) = <<"getSavedTransactionMeta", "setFlow">>
                /\ t.outcome.fail # "setFlow" =>
                     /\ Len(t.calls) >= 3
                     /\ t.calls[3] = "getSavedTransactionMeta"
    ]_vars

\* proceed was called with nothing saved and has rejected
C16_Witness ==
  /\ transaction.op = "proceed"
  /\ transaction.rejected = "AuthSdkError"
  /\ transaction.calls = <<"getSavedTransactionMeta">>
  /\ ~transaction.saw.meta.saved
  /\ transaction.left = transaction.saw

\* remediate has answered in the last run
Remediated == RunDone /\ InSeq("remediate", transaction.calls)
                      /\ transaction.outcome.fail # "remediate"

\* C17: whenever remediate reports terminal the returned status is TERMINAL,
\* whatever canceled and the interaction code are, and no token exchange is
\* made; otherwise, whenever it reports canceled the status is CANCELED and
\* no token exchange is made
C17_StatusInPriorityOrder ==
  Remediated =>
    LET r == transaction.outcome.remediated
    IN /\ r.terminal =>
            /\ transaction.returned.status = "TERMINAL"
            /\ IdxCalls("exchangeCodeForTokens") = {}
       /\ ~r.terminal /\ r.canceled =>
            /\ transaction.returned.status = "CANCELED"
            /\ IdxCalls("exchangeCodeForTokens") = {}

\* the call that failed in the last run, if one was made that fails
FailedCall == {c \in FailingCalls : c = transaction.outcome.fail /\ IdxCalls(c) # {}}

\* C18: run never rejects: when setFlow, the meta lookup, interact,
\* introspect, remediate, isFinished or exchangeCodeForTokens fails, run
\* returns a transaction with status FAILURE, the error of the failed call
\* in its error field and no tokens, and has cleared the transaction meta
C18_FailuresAreReturned ==
  RunDone =>
    \A c \in FailedCall :
      /\ transaction.rejected = NoError
      /\ transaction.returned.status = "FAILURE"
      /\ "error" \in transaction.returned.has
      /\ transaction.returned.error = c
      /\ "tokens" \notin transaction.returned.has
      /\ transaction.calls[Len(transaction.calls)] = "clear"
      /\ transaction.left.meta = NoMeta
      /\ ~transaction.left.idxResponse

\* the token exchange of a finished flow has failed and run has returned
C18_Witness ==
  /\ RunDone
  /\ transaction.outcome.fail = "exchangeCodeForTokens"
  /\ IdxCalls("exchangeCodeForTokens") # {}
  /\ transaction.returned.status = "FAILURE"
  /\ transaction.returned.error = "exchangeCodeForTokens"

\* C19: at the end of every run the transaction meta is cleared if and only
\* if the returned status is SUCCESS, FAILURE, TERMINAL or CANCELED; a run
\* that returns PENDING does not clear the meta after introspection, and the
\* intermediate response it saved is still persisted on return
C19_ClearedIffFinal ==
  RunDone =>
    /\ transaction.returned.status \in FinalStatuses
         <=> transaction.calls[Len(transaction.calls)] = "clear"
    /\ transaction.returned.status \in FinalStatuses
         => transaction.left.meta = NoMeta /\ ~transaction.left.idxResponse
    /\ transaction.returned.status \notin FinalStatuses
         => /\ transaction.returned.status = "PENDING"
            /\ \A i \in IdxCalls("clear") : \E j \in IdxCalls("introspect") : i < j
            /\ IdxCalls("saveIdxResponse") # {} => transaction.left.idxResponse

\* a run has saved the intermediate response and returned PENDING, after
\* another invocation cleared the meta while it awaited remediate
C19_Witness ==
  /\ RunDone
  /\ transaction.returned.status = "PENDING"
  /\ IdxCalls("saveIdxResponse") # {}
  /\ transaction.left.idxResponse
  /\ ~transaction.left.meta.saved

\* the specification that the flow identifier selects: the remediators, the
\* class of the monitor, the sso flag and the action whitelist
Selected(given, spec) ==
  CASE given \in {"register", "signup", "enrollProfile"} ->
         /\ spec.remediators = "RegistrationFlow"
         /\ spec.flowMonitor.class = "RegistrationFlowMonitor"
         /\ ~spec.sso
         /\ ~spec.hasActions
    [] given \in {"recoverPassword", "resetPassword"} ->
         /\ spec.remediators = "PasswordRecoveryFlow"
         /\ spec.flowMonitor.class = "PasswordRecoveryFlowMonitor"
         /\ ~spec.sso
         /\ spec.hasActions
         /\ spec.actions = RecoverActions
    [] OTHER ->
         /\ spec.remediators = "AuthenticationFlow"
         /\ spec.flowMonitor.class = "AuthenticationFlowMonitor"
         /\ spec.sso
         /\ ~spec.hasActions

\* the step is a call of getFlowSpecification
Selects == transaction' # transaction /\ transaction'.op = "getFlowSpecification"

\* the monitor of the specification is none that the state referred to
FreshlyMonitored ==
  /\ transaction'.options.flowMonitor # NoMonitor
  /\ transaction'.options.flowMonitor.id \notin MonitorsInUse

\* C20 as stated: every flow identifier, an absent one included, selects its
\* specification with a fresh monitor, and the specification returns the
\* identifier that was given
C20_ReturnsTheGivenIdentifier ==
  [][ Selects =>
        /\ Selected(transaction'.given, transaction'.options)
        /\ FreshlyMonitored
        /\ transaction'.options.flow = transaction'.given
    ]_vars

\* C20: getFlowSpecification maps 'register', 'signup', 'enrollProfile' to
\* the registration flow (sso off, no whitelist), 'recoverPassword',
\* 'resetPassword' to the password recovery flow (sso off, the two recover
\* actions), and every other identifier, an absent one included, to the
\* authentication flow (sso on, no whitelist), each with a fresh monitor; the
\* specification returns the identifier given, and 'proceed' when none is
C20_SelectsTheFlow ==
  [][ Selects =>
        /\ Selected(transaction'.given, transaction'.options)
        /\ FreshlyMonitored
        /\ transaction'.options.flow =
             IF transaction'.given = NoFlow THEN "proceed" ELSE transaction'.given
    ]_vars

\* a specification was selected with no identifier given, after another one
C20_Witness ==
  /\ transaction.op = "getFlowSpecification"
  /\ transaction.given = NoFlow
  /\ transaction.options.flow = "proceed"
  /\ transaction.options.remediators = "AuthenticationFlow"
  /\ transaction.options.flowMonitor.id = 2

----------------------------------------------------------------------------
(* The email verify callback.  A query string is the sequence of its       *)
(* parameters, each a name and a value.                                    *)

\* most parameters of a query string
MaxParams == 3

Param(name, value) == [name |-> name, value |-> value]

\* the query string has a parameter of the name
hasParam(query, name) == \E i \in 1..Len(query) : query[i].name = name

\* the value of the parameter in the object of the parameters: the one of
\* its last occurrence
RECURSIVE paramOf(_, _)
paramOf(query, name) ==
  IF query = <<>> THEN ""
  ELSE IF query[Len(query)].name = name THEN query[Len(query)].value
  ELSE paramOf(SubSeq(query, 1, Len(query) - 1), name)

\* one of the two parameters is enough
isEmailVerifyCallbackEither(query) ==
  hasParam(query, "state") \/ hasParam(query, "otp")

\* isEmailVerifyCallback(urlPath)
isEmailVerifyCallback(query) ==
  hasParam(query, "state") /\ hasParam(query, "otp")

\* parseEmailVerifyCallback(urlPath): { state?, otp? }; has: its fields
parseEmailVerifyCallback(query) ==
  [ has |-> {n \in {"state", "otp"} : hasParam(query, n)},
    state |-> paramOf(query, "state"),
    otp |-> paramOf(query, "otp") ]

\* the call of one of the two functions
EmailCall(op, query) ==
  [ op |-> op, query |-> query, is |-> isEmailVerifyCallback(query),
    parsed |-> parseEmailVerifyCallback(query) ]

IsEmailVerifyCallback(queries) ==
  \E q \in queries :
    /\ call' = EmailCall("isEmailVerifyCallback", q)
    /\ UNCHANGED managerVars
    /\ UNCHANGED idxVars

ParseEmailVerifyCallback(queries) ==
  \E q \in queries :
    /\ call' = EmailCall("parseEmailVerifyCallback", q)
    /\ UNCHANGED managerVars
    /\ UNCHANGED idxVars

\* the query strings of up to MaxParams parameters
QueryParams ==
  {Param(n, v) : n \in {"state", "otp"}, v \in {"a", "b"}} \cup {Param("foo", "b")}
Queries == UNION {[1..n -> QueryParams] : n \in 0..MaxParams}

InitEmail == InitWith(<<>>, DefaultOptions)

NextEmail ==
  \/ IsEmailVerifyCallback(Queries)
  \/ ParseEmailVerifyCallback(Queries)

SpecEmail == InitEmail /\ [][NextEmail]_vars

\* the values that the query string gives the name
ValuesOf(query, name) ==
  {query[i].value : i \in {j \in 1..Len(query) : query[j].name = name}}

\* C21: isEmailVerifyCallback is true exactly when the query string has both
\* a state and an otp parameter, and parseEmailVerifyCallback returns exactly
\* the state and the otp that the string has: {} when it has neither
C21_EmailVerifyCallback ==
  /\ call.op = "isEmailVerifyCallback" =>
       (call.is <=> ValuesOf(call.query, "state") # {} /\ ValuesOf(call.query, "otp") # {})
  /\ call.op = "parseEmailVerifyCallback" =>
       /\ \A n \in {"state", "otp"} : n \in call.parsed.has <=> ValuesOf(call.query, n) # {}
       /\ "state" \in call.parsed.has => call.parsed.state \in ValuesOf(call.query, "state")
       /\ "otp" \in call.parsed.has => call.parsed.otp \in ValuesOf(call.query, "otp")
       /\ call.parsed.has \subseteq {"state", "otp"}

\* a query string with a state and no otp was asked about
C21_Witness ==
  /\ call.op = "isEmailVerifyCallback"
  /\ call.query = <<Param("state", "a"), Param("foo", "b")>>
  /\ ~call.is

----------------------------------------------------------------------------
(* Properties of a renewal that succeeds.                                  *)

\* C22: when the request of renew(key) succeeds with a fresh token, the
\* events are 'removed' with the old token, 'added' with the fresh token and
\* 'renewed' with the fresh and the old token, in this order and each once;
\* afterwards the storage holds the fresh token under the key, a new expiry
\* timer for the fresh token is pending, the memo of the key is empty, and
\* the promise that renew returned resolves to the fresh token (when the
\* finally callback has run, which leaves the memo of the key empty and
\* changes nothing else)
C22_RenewalSucceeds ==
  [][ /\ result'.op = "renewSettled" /\ result'.thrown = "" =>
          LET key == result'.key
              old == StGet(storage, key)
              fresh == result'.token
          IN /\ fresh.obj
             /\ events' = << Event(EVENT_REMOVED, key, old, Undef, ""),
                             Event(EVENT_ADDED, key, fresh, Undef, ""),
                             Event(EVENT_RENEWED, key, fresh, old, "") >>
             /\ StGet(storage', key) = fresh
             /\ key \in DOMAIN expireTimeouts'
             /\ \E t \in timers' :
                  /\ t.id = expireTimeouts'[key]
                  /\ t.token = fresh
                  /\ t.setAt = now
             /\ result'.cancels = Cardinality({t \in timers : t.key = key})
             /\ Cardinality({t \in timers' : t.key = key}) = 1
             /\ key \notin DOMAIN renewPromise'
             /\ \E req \in requests :
                  /\ req.key = key /\ req.promise = result'.promise
                  /\ req.stage = "request"
                  /\ [req EXCEPT !.stage = "finally", !.value = fresh] \in requests'
      /\ result'.op = "renewFinally" /\ result'.thrown = "" =>
          /\ \E req \in requests :
               /\ req.promise = result'.promise /\ req.key = result'.key
               /\ req.value.obj
               /\ result'.token = req.value
          /\ result'.key \notin DOMAIN renewPromise'
          /\ storage' = storage /\ timers' = timers /\ events' = <<>>
    ]_vars

\* a renewal has replaced a stored token by a different one
C22_Witness ==
  /\ result.op = "renewSettled"
  /\ result.thrown = ""
  /\ Len(events) = 3
  /\ events[3].type = EVENT_RENEWED
  /\ events[3].old.obj
  /\ events[3].old # events[3].token
  /\ StGet(storage, result.key) = result.token

----------------------------------------------------------------------------
(* The expired handler under every setting of autoRenew and autoRemove.    *)

ManagerOptions == [autoRenew : BOOLEAN, autoRemove : BOOLEAN]

InitExpired ==
  \E opts \in ManagerOptions :
    InitWith(<<Entry(ACCESS_TOKEN_STORAGE_KEY, Tok("access", 0))>>, opts)

SpecExpired == InitExpired /\ [][NextThrottle]_vars

\* C23: on every 'expired' event for a key: with autoRenew the handler
\* either calls renew(key) or, when throttled, only emits 'error', and the
\* storage is left as it is; with autoRenew off and autoRemove on the token
\* is removed from the storage and 'removed' is emitted, without a renewal
\* request; with both off neither the storage changes nor is a request made
C23_ExpiredHandler ==
  [][ result'.op = "expired" =>
        LET key == result'.key
            expired == events'[1]
            renewCalls == {i \in 1..Len(result'.calls) :
                             result'.calls[i].cb = "renew" /\ result'.calls[i].key = key}
        IN /\ expired.type = EVENT_EXPIRED /\ expired.key = key
           /\ options.autoRenew =>
                /\ storage' = storage
                /\ IF shouldThrottleRenew(renewTimeQueue)[1]
                   THEN /\ renewCalls = {}
                        /\ requests' = requests
                        /\ Len(events') = 2
                        /\ events'[2].type = EVENT_ERROR
                   ELSE /\ Cardinality(renewCalls) = 1
                        /\ events' = <<expired>>
           /\ ~options.autoRenew /\ options.autoRemove =>
                /\ storage' = StDelete(storage, key)
                /\ key \notin StKeys(storage')
                /\ events' = <<expired, Event(EVENT_REMOVED, key, StGet(storage, key), Undef, "")>>
                /\ requests' = requests
                /\ renewCalls = {}
           /\ ~options.autoRenew /\ ~options.autoRemove =>
                /\ storage' = storage
                /\ requests' = requests
                /\ renewCalls = {}
                /\ events' = <<expired>>
    ]_vars

\* with autoRenew off and autoRemove on, the handler has removed a stored
\* token
C23_Witness ==
  /\ result.op = "expired"
  /\ ~options.autoRenew
  /\ options.autoRemove
  /\ Len(events) = 2
  /\ events[2].type = EVENT_REMOVED
  /\ events[2].token.obj
  /\ result.key \notin StKeys(storage)

----------------------------------------------------------------------------
(* Further properties of run.                                              *)

\* C24: whenever run clears the transaction meta at its end, the shared
\* meta is kept if and only if the returned status is TERMINAL: a run that
\* returns CANCELED, SUCCESS or FAILURE clears the shared meta too (seen on
\* a resumed transaction whose meta the shared storage holds)
C24_SharedMetaKeptIffTerminal ==
  [][ ( /\ transaction'.op \in {"run", "proceed"}
        /\ transaction'.rejected = NoError
        /\ transaction'.calls[Len(transaction'.calls)] = "clear"
        /\ ~InSeq("interact", transaction'.calls)
        /\ transaction'.saw.shared )
      => (transaction'.left.shared <=> transaction'.returned.status = "TERMINAL")
    ]_vars

\* the calls of the run itself: proceed looks the meta up before it runs
RunCalls(t) == IF t.op = "proceed" THEN Tail(t.calls) ELSE t.calls

\* the collaborators of run in the order of their calls
CallOrder ==
  << "getSavedTransactionMeta", "clear", "interact", "introspect", "remediate",
     "isFinished", "exchangeCodeForTokens" >>

\* the position of a call in that order
Place == [name \in {CallOrder[i] : i \in 1..Len(CallOrder)} |->
            CHOOSE i \in 1..Len(CallOrder) : CallOrder[i] = name]

\* the calls that are in the order, but for the clear that ends the run
Placed(calls) ==
  {i \in 1..Len(calls) :
     calls[i] \in DOMAIN Place /\ ~(calls[i] = "clear" /\ i = Len(calls))}

\* C25: within one run the calls are made in the order meta lookup, clear
\* and interact, introspect, remediate, isFinished, exchangeCodeForTokens,
\* each at most once and none after one that failed; clear and interact are
\* called exactly when the saved meta has no interaction handle, so that a
\* run that resumes a saved transaction never calls interact and
\* introspects with the saved handle
C25_CallsInOrder ==
  [][ transaction'.op \in {"run", "proceed"} /\ transaction'.rejected = NoError =>
        LET calls == RunCalls(transaction')
            saved == transaction'.saw.meta.interactionHandle
            made(name) == \E i \in Placed(calls) : calls[i] = name
        IN /\ \A i, j \in Placed(calls) :
                i < j => /\ Place[calls[i]] < Place[calls[j]]
                         /\ transaction'.outcome.fail # calls[i]
           /\ made("interact") <=>
                /\ made("getSavedTransactionMeta")
                /\ transaction'.outcome.fail # "getSavedTransactionMeta"
                /\ ~saved
           /\ made("clear") <=> made("interact")
           /\ made("introspect") =>
                transaction'.introspected = IF saved THEN "saved" ELSE "interact"
    ]_vars

\* a run has resumed a saved transaction, remediated it and exchanged the code
C25_Witness ==
  /\ transaction.op = "proceed"
  /\ RunCalls(transaction) =
       << "setFlow", "getSavedTransactionMeta", "introspect", "remediate",
          "isFinished", "exchangeCodeForTokens", "clear" >>
  /\ transaction.introspected = "saved"

\* a few of the answers: introspect or remediate may fail, and remediate may
\* answer with a next step
FewOutcomes ==
  {w \in StartOutcomes \cup RemediateOutcomes :
     /\ w.fail \in {NoError, "introspect", "remediate"}
     /\ w.idxResponse.neededToProceed \in {<<>>, <<"select-enroll-profile">>}
     /\ ~w.idxResponse.recover
     /\ ~w.remediated.terminal /\ ~w.remediated.canceled
     /\ ~w.remediated.interactionCode
     /\ w.remediated.nextStep = w.remediated.idxResponse}

\* transactions are started, resumed and remediated
NextRun ==
  \/ Run(StartOptions, FewOutcomes, MaxAwaited)
  \/ Run(RemediateOptions, FewOutcomes, MaxAwaited)
  \/ Proceed(FewOutcomes, MaxAwaited)
  \/ Resume(FewOutcomes)

SpecRun == InitIdx /\ [][NextRun]_vars

\* the fields of the snapshot of a transaction
SnapshotFields == {"meta", "enabledFeatures", "availableSteps"}

\* C26 as stated: meta, enabledFeatures and availableSteps are returned only
\* by a run that found no saved interaction handle and called interact
C26_SnapshotOnlyWhenFresh ==
  RunDone /\ transaction.returned.has \cap SnapshotFields # {} =>
    InSeq("interact", transaction.calls)

\* C26: meta, enabledFeatures and availableSteps are returned exactly by the
\* runs that were given neither remediators nor actions and whose
\* introspection succeeded, whether the transaction is fresh or resumed; a
\* run with remediators or actions, as every run through proceed is, never
\* returns them
C26_SnapshotWithoutRemediation ==
  RunDone =>
    LET snapshot == /\ transaction.options.remediators = NoRemediators
                    /\ ~transaction.options.hasActions
                    /\ InSeq("introspect", transaction.calls)
                    /\ transaction.outcome.fail # "introspect"
    IN /\ snapshot => SnapshotFields \subseteq transaction.returned.has
       /\ ~snapshot => SnapshotFields \cap transaction.returned.has = {}
       /\ transaction.op = "proceed" => ~snapshot

\* a run without remediators has resumed a saved transaction and returned
\* its snapshot
C26_Witness ==
  /\ transaction.op = "run"
  /\ ~InSeq("interact", transaction.calls)
  /\ transaction.introspected = "saved"
  /\ SnapshotFields \subseteq transaction.returned.has
  /\ transaction.returned.status = "PENDING"

----------------------------------------------------------------------------
(* The VerifyAuthenticator remediator.  A value bag gives each of its keys *)
(* a string or nothing (`Absent', a key the object does not have).         *)

Absent == "undefined"

\* JavaScript's !!value of a string or undefined
truthy(value) == value # Absent /\ value # ""

\* canRemediate()
canRemediate(challengeType, values) ==
  IF challengeType = "password"
  THEN truthy(values.password)
  ELSE truthy(values.verificationCode) \/ truthy(values.otp)

\* mapCredentials(): the passcode
mapCredentials(challengeType, values) ==
  IF challengeType = "password" THEN values.password
  ELSE IF truthy(values.verificationCode) THEN values.verificationCode
  ELSE values.otp

\* a variant that deletes the three secrets whatever the authenticator is
getValuesWithoutSecrets(challengeType, values) ==
  [values EXCEPT !.password = Absent, !.verificationCode = Absent, !.otp = Absent]

\* getValuesAfterProceed(), over the values the remediator holds
getValuesAfterProceed(challengeType, values) ==
  IF challengeType = "password"
  THEN [values EXCEPT !.password = Absent]
  ELSE [values EXCEPT !.verificationCode = Absent, !.otp = Absent]

\* a verify step: the remediator is asked whether it can remediate, maps the
\* credentials and gives the values for the next step
VerifyAuthenticator(types, bags) ==
  \E challengeType \in types, values \in bags :
    /\ call' = [ op |-> "VerifyAuthenticator", type |-> challengeType,
                 values |-> values,
                 canRemediate |-> canRemediate(challengeType, values),
                 passcode |-> mapCredentials(challengeType, values),
                 after |-> getValuesAfterProceed(challengeType, values) ]
    /\ UNCHANGED managerVars
    /\ UNCHANGED idxVars

\* the authenticators and the value bags of the steps
AuthenticatorTypes == {"password", "email", "phone"}
SecretKeys == {"password", "verificationCode", "otp"}
ValueBags ==
  [ password : {Absent, "", "p"}, verificationCode : {Absent, "", "c"},
    otp : {Absent, "", "o"}, username : {Absent, "u"} ]

InitVerify == InitWith(<<>>, DefaultOptions)

NextVerify == VerifyAuthenticator(AuthenticatorTypes, ValueBags)

SpecVerify == InitVerify /\ [][NextVerify]_vars

\* C27 as stated: after a verify step the returned bag has none of password,
\* verificationCode and otp, for every authenticator and every bag, and all
\* other values are kept
C27_NoSecretIsKept ==
  call.op = "VerifyAuthenticator" =>
    /\ \A k \in SecretKeys : call.after[k] = Absent
    /\ call.after.username = call.values.username

\* C27: after a verify step of a password authenticator the returned bag has
\* no password, after a step of any other authenticator it has neither a
\* verificationCode nor an otp; so the passcode that the step sent is not in
\* the bag; every other value, the secrets of the other kind included, is
\* kept
C27_StepSecretIsPurged ==
  call.op = "VerifyAuthenticator" =>
    LET purged == IF call.type = "password" THEN {"password"}
                  ELSE {"verificationCode", "otp"}
    IN /\ \A k \in purged : call.after[k] = Absent
       /\ \A k \in DOMAIN call.values \ purged : call.after[k] = call.values[k]
       /\ DOMAIN call.after = DOMAIN call.values
       /\ truthy(call.passcode) => \A k \in SecretKeys : call.after[k] # call.passcode
       /\ call.canRemediate <=> truthy(call.passcode)

\* a password step was given an otp too, and the otp is still in the bag
C27_Witness ==
  /\ call.op = "VerifyAuthenticator"
  /\ call.type = "password"
  /\ call.canRemediate
  /\ call.values.otp = "o"
  /\ call.after.otp = "o"
  /\ call.after.password = Absent


----------------------------------------------------------------------------
(* Monitoring of the stored tokens: timers and renewals in flight.          *)

\* C28 as stated: with autoRenew on, every token in storage has a pending
\* expiry timer or a renewal in flight for its key, in every state
C28_EveryTokenMonitored ==
  options.autoRenew =>
    \A key \in StKeys(storage) : LiveTimers(key) # {} \/ RequestsOf(key) # {}


\* C29 as stated: every key that has a pending expiry timer has a token in
\* storage, in every state the manager's own operations reach
C29_TimersHaveTokens ==
  \A t \in timers : t.key \in StKeys(storage)


----------------------------------------------------------------------------
(* Renewal of the three kinds of token, with and without a refresh token   *)
(* in storage.                                                              *)

KindTokens == {Tok("id", ExpireEarlySeconds + 1), Tok("access", ExpireEarlySeconds + 1),
               Tok("refresh", ExpireEarlySeconds + 1)}

\* the storages found at construction: each kind under its default key or
\* not there
KindStorages ==
  { SelectSeq(<< Entry(ID_TOKEN_STORAGE_KEY, Tok("id", ExpireEarlySeconds + 1)),
                 Entry(ACCESS_TOKEN_STORAGE_KEY, Tok("access", ExpireEarlySeconds + 1)),
                 Entry(REFRESH_TOKEN_STORAGE_KEY, Tok("refresh", ExpireEarlySeconds + 1)) >>,
              LAMBDA e : e.key \in kept) : kept \in SUBSET Keys }

InitKinds == \E st \in KindStorages : InitWith(st, DefaultOptions)

NextKinds ==
  \/ Renew(Keys, MaxRequests) /\ NoHistory
  \/ RenewSucceed(KindTokens) /\ NoHistory
  \/ RenewFail /\ NoHistory
  \/ RenewFinally /\ NoHistory

SpecKinds == InitKinds /\ [][NextKinds]_vars

\* the request that the step settles with success
SettledWell(req) ==
  /\ req \in requests
  /\ req.stage = "request"
  /\ req \notin requests'
  /\ result'.op = "renewSettled"
  /\ result'.promise = req.promise
  /\ result'.thrown = ""

\* C30 as stated: after a successful renew(key) the token stored under key
\* is of the kind of the token that was stored under key when renew was
\* called, for id, access and refresh tokens, with and without a refresh
\* token in storage; the request was made with the refresh token exactly
\* when one was in storage, and was for the original token
C30_RenewKeepsKind ==
  [][ /\ \A req \in requests :
           SettledWell(req) => StGet(storage', req.key).kind = req.token.kind
      /\ \A req \in requests' \ requests :
           /\ req.token = StGet(storage, req.key)
           /\ req.refresh = getTokens(storage).refreshToken ]_vars

====
